---- MODULE Spec2Model ----
(***************************************************************************)
(* Grade-Speeder: the draft/sync reconciliation engine of the frontend     *)
(* (frontend/src/App.tsx, api.ts, hooks/useAutoSave.ts) and the Sync       *)
(* Gateway of the backend (backend/src/canvasClient.ts, routes).           *)
(***************************************************************************)
EXTENDS Integers, Sequences, FiniteSets, TLC

(***************************************************************************)
(* Bounds of the exploration.                                              *)
(***************************************************************************)
\* at most MaxOps user or timer operations (edit, Fetch click, Push click,
\* autosave tick) in a behaviour, at most MaxEdits of them edits
MaxOps == 3
MaxEdits == 2
\* at most MaxRequests page requests of one fetchAllPages (a cyclic chain of
\* next links never ends)
MaxRequests == 4

(***************************************************************************)
(* Values.  A nullable number is <<>> (null) or <<n>>.  Text that the code *)
(* inspects character by character (names, the search box) is a sequence   *)
(* of one-character strings; text it only compares is a TLA+ string.       *)
(***************************************************************************)
NULL == <<>>
Some(n) == <<n>>

Statuses == {"none", "late", "missing", "excused"}
StatusInputs == {"none", "excused"}
ListTabs == {"all", "graded", "ungraded", "group", "staged"}
Criteria == {"c1", "c2"}
CommentTexts == {"", "a"}
RubricTexts == {"r"}
RawGrades == {"", "8", "x"}
SearchInputs == {<<>>, <<"E">>}

\* NaN: the one number that is neither null nor a grade
NaN == <<0, 0>>

\* Number(value) of handleGradeChange
Number(value) ==
  CASE value = "7" -> Some(7)
    [] value = "8" -> Some(8)
    [] value = "0" -> Some(0)
    [] value = "" -> Some(0)
    [] value = " " -> Some(0)
    [] OTHER -> NaN

IsNaN(num) == num = NaN

\* { ...a, ...b } on objects
Merge(a, b) ==
  [k \in (DOMAIN a) \cup (DOMAIN b) |-> IF k \in DOMAIN b THEN b[k] ELSE a[k]]

(***************************************************************************)
(* Strings as character sequences.                                         *)
(***************************************************************************)
Alphabet ==
  <<" ", "5", "a", "b", "c", "e", "g", "i", "k", "l", "n", "o", "y", "z">>

Digits == {"5"}

DigitValue(c) == CASE c = "5" -> 5

Ord(c) == CHOOSE i \in 1..Len(Alphabet) : Alphabet[i] = c

ToLowerChar(c) ==
  CASE c = "E" -> "e"
    [] c = "G" -> "g"
    [] OTHER -> c

ToLowerCase(s) == [i \in 1..Len(s) |-> ToLowerChar(s[i])]

RECURSIVE TrimStart(_)
TrimStart(s) == IF s # <<>> /\ Head(s) = " " THEN TrimStart(Tail(s)) ELSE s

RECURSIVE TrimEnd(_)
TrimEnd(s) ==
  IF s # <<>> /\ s[Len(s)] = " " THEN TrimEnd(SubSeq(s, 1, Len(s) - 1)) ELSE s

Trim(s) == TrimEnd(TrimStart(s))

\* String.prototype.includes
Includes(s, q) ==
  \E i \in 1..(Len(s) + 1) :
    i + Len(q) - 1 <= Len(s) /\ SubSeq(s, i, i + Len(q) - 1) = q

\* name.trim().split(/\s+/) and the last part
RECURSIVE LastWord(_, _)
LastWord(s, acc) ==
  IF s = <<>> THEN acc
  ELSE IF Head(s) = " " THEN LastWord(TrimStart(s), <<>>)
  ELSE LastWord(Tail(s), Append(acc, Head(s)))

getLastName(name) == LastWord(Trim(name), <<>>)

\* a.localeCompare(b) < 0 on lower-case words
RECURSIVE LocaleLess(_, _)
LocaleLess(a, b) ==
  IF b = <<>> THEN FALSE
  ELSE IF a = <<>> THEN TRUE
  ELSE IF Ord(Head(a)) # Ord(Head(b)) THEN Ord(Head(a)) < Ord(Head(b))
  ELSE LocaleLess(Tail(a), Tail(b))

(***************************************************************************)
(* The remote gradebook: the roster of the configured assignment as the    *)
(* backend's normalizeSubmission hands it to the frontend.  The score and  *)
(* the rubric assessment comments are the part remote writes change.       *)
(***************************************************************************)
Roster == <<
  [userId |-> 1, userName |-> <<"a", "n", "n", " ", "l", "e", "e">>,
   groupId |-> Some(5), groupName |-> <<"g", "5">>, hasSubmission |-> TRUE,
   late |-> FALSE, missing |-> FALSE, excused |-> FALSE],
  [userId |-> 2, userName |-> <<"b", "o", "b", " ", "k", "a", "y">>,
   groupId |-> Some(5), groupName |-> <<"g", "5">>, hasSubmission |-> TRUE,
   late |-> TRUE, missing |-> FALSE, excused |-> FALSE],
  [userId |-> 3, userName |-> <<"c", "y", " ", "a", "l", "i">>,
   groupId |-> Some(5), groupName |-> <<"g", "5">>, hasSubmission |-> FALSE,
   late |-> FALSE, missing |-> TRUE, excused |-> FALSE] >>

UserIds == {Roster[i].userId : i \in 1..Len(Roster)}

InitialScore == [u \in UserIds |-> IF u = 1 THEN Some(7) ELSE NULL]

InitialAssessments ==
  [u \in UserIds |-> IF u = 1 THEN [c \in {"c1"} |-> "r"] ELSE <<>>]

VARIABLES
  config,             \* the PublicConfig, null until fetchConfig resolves
  submissions,        \* submissionsResponse?.submissions || []
  drafts,             \* Record<number, DraftState>
  loadingSubmissions,
  syncing,
  showCommitModal,
  activeListTab,
  searchQuery,
  message,            \* the toast of setMessage
  error,              \* the toast of setError
  autosave,           \* localStorage 'grade-speeder-autosave'
  fetches,            \* GET /api/submissions requests in flight
  sentDrafts,         \* the drafts handleSync closed over, while it awaits
  syncRequest,        \* POST /api/submissions/sync in flight: its updates
  cursor,             \* pushSubmissionUpdates: position of the for loop
  results,            \* pushSubmissionUpdates: results so far
  writes,             \* the client.put calls of the current request
  canvasScore,        \* remote: posted grade per student
  canvasRubric,       \* remote: rubric assessment comments per student
  cachedConfig,       \* config.ts: the PrivateConfig of the backend
  remotePages,        \* remote: the page served at each URL, data and Link
  pager,              \* fetchAllPages: its locals and where it stands
  requested,          \* the client.get calls of fetchAllPages, in order
  demoMode,           \* uiSettings.demoMode
  settingsSaving,     \* a saveConfig of handleSelectAssignment is in flight
  served,             \* the assignment each fetch in flight was served for
  edits, ops,         \* operations performed so far
  calls               \* DraftSpec: the handler calls applied, in order

vars == <<config, submissions, drafts, loadingSubmissions, syncing, showCommitModal,
          activeListTab, searchQuery, message, error, autosave, fetches,
          sentDrafts, syncRequest, cursor, results, writes, canvasScore,
          canvasRubric, cachedConfig, remotePages, pager, requested, demoMode,
          settingsSaving, served, edits, ops, calls>>

loadVars == <<config, submissions, loadingSubmissions, fetches, served>>
viewVars == <<showCommitModal, activeListTab, searchQuery>>
toastVars == <<message, error>>
syncVars == <<syncing, sentDrafts>>
frontVars == <<loadVars, viewVars, toastVars, syncVars, drafts, autosave>>
pageVars == <<remotePages, pager, requested>>
gatewayVars == <<syncRequest, cursor, results, writes, canvasScore,
                 canvasRubric, cachedConfig, pageVars>>
budgetVars == <<edits, ops, calls>>

(***************************************************************************)
(* api.ts                                                                  *)
(***************************************************************************)
\* the submissions the backend returns for the remote state (score, rubric)
RemoteSubmissions(score, rubric) ==
  [i \in 1..Len(Roster) |->
     Merge(Roster[i], [score |-> score[Roster[i].userId],
                       rubricAssessments |-> rubric[Roster[i].userId]])]

\* the gradebook of the assignment the installation is not configured for
OtherAssignment == Some(9)
OtherScore == [u \in UserIds |-> IF u = 2 THEN Some(5) ELSE NULL]
OtherAssessments == [u \in UserIds |-> <<>>]

\* the status with the late flag looked at before the missing flag
InitialStatusLateFirst(sub) ==
  IF sub.excused THEN "excused"
  ELSE IF sub.late THEN "late"
  ELSE IF sub.missing THEN "missing"
  ELSE "none"

InitialStatus(sub) ==
  IF sub.excused THEN "excused"
  ELSE IF sub.missing THEN "missing"
  ELSE IF sub.late THEN "late"
  ELSE "none"

\* drafts seeded with score || null: a score of 0 taken for no score
createInitialDraftsFalsy(subs) ==
  [u \in {subs[i].userId : i \in 1..Len(subs)} |->
     LET sub == subs[CHOOSE i \in 1..Len(subs) : subs[i].userId = u]
         score == IF sub.score = Some(0) THEN NULL ELSE sub.score
     IN [grade |-> score,
         comment |-> "",
         baseGrade |-> score,
         baseComment |-> "",
         gradeDirty |-> FALSE,
         commentDirty |-> FALSE,
         synced |-> TRUE,
         status |-> InitialStatus(sub),
         baseStatus |-> InitialStatus(sub),
         statusDirty |-> FALSE,
         rubricComments |-> sub.rubricAssessments,
         rubricCommentsDirty |-> FALSE]]

createInitialDrafts(subs) ==
  [u \in {subs[i].userId : i \in 1..Len(subs)} |->
     LET sub == subs[CHOOSE i \in 1..Len(subs) :
                       /\ subs[i].userId = u
                       /\ \A j \in (i + 1)..Len(subs) : subs[j].userId # u]
     IN [grade |-> sub.score,
         comment |-> "",
         baseGrade |-> sub.score,
         baseComment |-> "",
         gradeDirty |-> FALSE,
         commentDirty |-> FALSE,
         synced |-> TRUE,
         status |-> InitialStatus(sub),
         baseStatus |-> InitialStatus(sub),
         statusDirty |-> FALSE,
         rubricComments |-> sub.rubricAssessments,
         rubricCommentsDirty |-> FALSE]]

(***************************************************************************)
(* hooks/useAutoSave.ts: JSON.stringify keys the snapshot by the decimal   *)
(* string of the userId, loadSubmissions reads it back with Number(key).   *)
(***************************************************************************)
Stringify(d) ==
  [k \in {ToString(u) : u \in DOMAIN d} |->
     d[CHOOSE u \in DOMAIN d : ToString(u) = k]]

KeyToUserId(key) == CHOOSE u \in UserIds : ToString(u) = key

AnyDirty(d) ==
  d.gradeDirty \/ d.commentDirty \/ d.statusDirty \/ d.rubricCommentsDirty

\* a restore that takes every saved entry of a loaded student, staged or not
RestoredAll(initialDrafts, saved) ==
  IF saved = NULL THEN initialDrafts
  ELSE [u \in DOMAIN initialDrafts |->
          IF ToString(u) \in DOMAIN saved[1]
          THEN Merge(initialDrafts[u], saved[1][ToString(u)])
          ELSE initialDrafts[u]]

\* the loop of loadSubmissions over Object.keys(savedDrafts)
Restored(initialDrafts, saved) ==
  IF saved = NULL THEN initialDrafts
  ELSE [u \in DOMAIN initialDrafts |->
          IF ToString(u) \in DOMAIN saved[1] /\ AnyDirty(saved[1][ToString(u)])
          THEN Merge(initialDrafts[u], saved[1][ToString(u)])
          ELSE initialDrafts[u]]

(***************************************************************************)
(* App.tsx: the derived list.                                              *)
(***************************************************************************)
Filter(seq, Test(_)) ==
  LET F[i \in 0..Len(seq)] ==
        IF i = 0 THEN <<>>
        ELSE IF Test(seq[i]) THEN Append(F[i - 1], seq[i]) ELSE F[i - 1]
  IN F[Len(seq)]

\* Array.prototype.sort with a comparator given as "a goes before b": stable
StableSort(seq, Before(_, _)) ==
  LET Insert(x, sorted) ==
        LET ks == {k \in 1..Len(sorted) : Before(x, sorted[k])}
            k == IF ks = {} THEN Len(sorted) + 1
                 ELSE CHOOSE m \in ks : \A n \in ks : m <= n
        IN SubSeq(sorted, 1, k - 1) \o <<x>> \o SubSeq(sorted, k, Len(sorted))
      S[i \in 0..Len(seq)] == IF i = 0 THEN <<>> ELSE Insert(seq[i], S[i - 1])
  IN S[Len(seq)]

HasDraft(d, u) == u \in DOMAIN d

\* drafts[s.userId]?.grade !== null
GradeNotNull(d, u) == IF HasDraft(d, u) THEN d[u].grade # NULL ELSE TRUE
\* drafts[s.userId]?.grade === null
GradeIsNull(d, u) == HasDraft(d, u) /\ d[u].grade = NULL
\* drafts[s.userId]?.gradeDirty || ... || drafts[s.userId]?.rubricCommentsDirty
IsStaged(d, u) == HasDraft(d, u) /\ AnyDirty(d[u])

hasGroups(subs) == \E i \in 1..Len(subs) : subs[i].groupId # NULL

\* parseInt(group.replace(/\D/g, ''), 10)
GroupNumber(name) ==
  LET V[i \in 0..Len(name)] ==
        IF i = 0 THEN NaN
        ELSE IF name[i] \notin Digits THEN V[i - 1]
        ELSE IF V[i - 1] = NaN THEN Some(DigitValue(name[i]))
        ELSE Some(10 * V[i - 1][1] + DigitValue(name[i]))
  IN V[Len(name)]

GroupKey(s) == IF s.groupName = NULL THEN <<"z", "z", "z">> ELSE s.groupName

sortedSubmissions(subs, d, tab, query) ==
  LET q == ToLowerCase(Trim(query))
      Matches(s) == \/ Includes(ToLowerCase(s.userName), q)
                    \/ (s.groupName # NULL /\ Includes(ToLowerCase(s.groupName), q))
      searched == IF Trim(query) # <<>> THEN Filter(subs, Matches) ELSE subs
      TabTest(s) ==
        CASE tab = "graded" -> GradeNotNull(d, s.userId)
          [] tab = "ungraded" -> s.hasSubmission /\ GradeIsNull(d, s.userId)
          [] tab = "staged" -> IsStaged(d, s.userId)
          [] OTHER -> TRUE
      filtered == Filter(searched, TabTest)
      ByLastName(a, b) ==
        LocaleLess(getLastName(a.userName), getLastName(b.userName))
      ByGroup(a, b) ==
        IF GroupKey(a) # GroupKey(b)
        THEN LET numA == GroupNumber(GroupKey(a))
                 numB == GroupNumber(GroupKey(b))
             IN IF numA # NaN /\ numB # NaN /\ numA # numB
                THEN numA[1] < numB[1]
                ELSE LocaleLess(GroupKey(a), GroupKey(b))
        ELSE ByLastName(a, b)
  IN IF tab = "group" /\ hasGroups(subs)
     THEN StableSort(filtered, ByGroup)
     ELSE StableSort(filtered, ByLastName)

Visible == sortedSubmissions(submissions, drafts, activeListTab, searchQuery)
VisibleIds == {Visible[i].userId : i \in 1..Len(Visible)}

\* the stats memo
\* stats whose graded counts the students with a base grade
statsOfBase ==
  [total |-> Len(submissions),
   withSubmission |->
     Cardinality({i \in 1..Len(submissions) : submissions[i].hasSubmission}),
   graded |->
     Cardinality({i \in 1..Len(submissions) :
                    /\ HasDraft(drafts, submissions[i].userId)
                    /\ drafts[submissions[i].userId].baseGrade # NULL}),
   dirty |->
     Cardinality({i \in 1..Len(submissions) :
                    IsStaged(drafts, submissions[i].userId)})]

stats ==
  [total |-> Len(submissions),
   withSubmission |->
     Cardinality({i \in 1..Len(submissions) : submissions[i].hasSubmission}),
   graded |->
     Cardinality({i \in 1..Len(submissions) :
                    GradeNotNull(drafts, submissions[i].userId)}),
   dirty |->
     Cardinality({i \in 1..Len(submissions) :
                    IsStaged(drafts, submissions[i].userId)})]


(***************************************************************************)
(* App.tsx: the edit handlers, as the functions they pass to setDrafts.    *)
(***************************************************************************)
\* an updateDraft whose gradeDirty, once set, stays set
updateDraftSticky(prev, userId, changes) ==
  IF ~HasDraft(prev, userId) THEN prev
  ELSE LET current == prev[userId]
           merged == Merge(current, changes)
           flagged == [merged EXCEPT
                         !.gradeDirty = current.gradeDirty
                                        \/ merged.grade # current.baseGrade,
                         !.commentDirty = merged.comment # current.baseComment]
           next == [flagged EXCEPT
                      !.synced = ~(flagged.gradeDirty \/ flagged.commentDirty)]
       IN [prev EXCEPT ![userId] = next]

updateDraft(prev, userId, changes) ==
  IF ~HasDraft(prev, userId) THEN prev
  ELSE LET current == prev[userId]
           merged == Merge(current, changes)
           flagged == [merged EXCEPT
                         !.gradeDirty = merged.grade # current.baseGrade,
                         !.commentDirty = merged.comment # current.baseComment]
           next == [flagged EXCEPT
                      !.synced = ~(flagged.gradeDirty \/ flagged.commentDirty)]
       IN [prev EXCEPT ![userId] = next]

\* a grade handler without the isNaN check
handleGradeChangeUnchecked(prev, userId, value) ==
  updateDraft(prev, userId,
              [grade |-> IF value = "" THEN NULL ELSE Number(value)])

handleGradeChange(prev, userId, value) ==
  LET num == IF value = "" THEN NULL ELSE Number(value)
  IN IF value # "" /\ IsNaN(num) THEN prev
     ELSE updateDraft(prev, userId, [grade |-> num])

handleCommentChange(prev, userId, value) ==
  updateDraft(prev, userId, [comment |-> value])

\* a handleRubricCommentChange that marks the draft only when the text differs
handleRubricCommentChangeCompared(prev, userId, criterionId, value) ==
  IF ~HasDraft(prev, userId) THEN prev
  ELSE LET current == prev[userId]
           newRubricComments ==
             Merge(current.rubricComments, [c \in {criterionId} |-> value])
           touched == [current EXCEPT
                         !.rubricComments = newRubricComments,
                         !.rubricCommentsDirty =
                            \/ current.rubricCommentsDirty
                            \/ newRubricComments # current.rubricComments]
           next == [touched EXCEPT
                      !.synced = ~(touched.gradeDirty \/ touched.commentDirty
                                   \/ touched.statusDirty
                                   \/ touched.rubricCommentsDirty)]
       IN [prev EXCEPT ![userId] = next]

handleRubricCommentChange(prev, userId, criterionId, value) ==
  IF ~HasDraft(prev, userId) THEN prev
  ELSE LET current == prev[userId]
           newRubricComments ==
             Merge(current.rubricComments, [c \in {criterionId} |-> value])
           touched == [current EXCEPT !.rubricComments = newRubricComments,
                                      !.rubricCommentsDirty = TRUE]
           next == [touched EXCEPT
                      !.synced = ~(touched.gradeDirty \/ touched.commentDirty
                                   \/ touched.statusDirty
                                   \/ touched.rubricCommentsDirty)]
       IN [prev EXCEPT ![userId] = next]

\* submissions.find(s => s.userId === userId)
Find(subs, userId) ==
  LET is == {i \in 1..Len(subs) : subs[i].userId = userId}
  IN IF is = {} THEN NULL
     ELSE Some(subs[CHOOSE i \in is : \A j \in is : i <= j])

\* every other student, whatever the group
groupMembersAnyGroup(subs, userId) ==
  {subs[i].userId : i \in {j \in 1..Len(subs) : subs[j].userId # userId}}

\* the userIds of the other students of the student's group
groupMembers(subs, userId) ==
  LET student == Find(subs, userId)
  IN IF student = NULL \/ student[1].groupId = NULL THEN {}
     ELSE {subs[i].userId : i \in
             {j \in 1..Len(subs) : /\ subs[j].groupId = student[1].groupId
                                   /\ subs[j].userId # userId}}

handleCopyToGroup(prev, subs, userId, comment) ==
  [u \in DOMAIN prev |->
     IF u \in groupMembers(subs, userId)
     THEN [prev[u] EXCEPT !.comment = comment,
                          !.commentDirty = TRUE,
                          !.synced = FALSE]
     ELSE prev[u]]

handleCopyGradeToGroup(prev, subs, userId, grade) ==
  IF grade = NULL THEN prev
  ELSE [u \in DOMAIN prev |->
          IF u \in groupMembers(subs, userId)
          THEN [prev[u] EXCEPT !.grade = grade,
                               !.gradeDirty = grade # prev[u].baseGrade,
                               !.synced = FALSE]
          ELSE prev[u]]

\* a status handler that takes the chosen status for the new base
handleStatusChangeRebased(prev, userId, status) ==
  IF ~HasDraft(prev, userId) THEN prev
  ELSE LET current == prev[userId]
       IN [prev EXCEPT ![userId] =
             [current EXCEPT
                !.status = status, !.baseStatus = status,
                !.statusDirty = FALSE,
                !.synced = ~(current.gradeDirty \/ current.commentDirty)]]

handleStatusChange(prev, userId, status) ==
  IF ~HasDraft(prev, userId) THEN prev
  ELSE LET current == prev[userId]
           changed == [current EXCEPT
                         !.status = status,
                         !.statusDirty = status # current.baseStatus]
           next == [changed EXCEPT
                      !.synced = ~(changed.gradeDirty \/ changed.commentDirty
                                   \/ changed.statusDirty)]
       IN [prev EXCEPT ![userId] = next]

ClearedDraft(draft) ==
  [draft EXCEPT !.grade = draft.baseGrade,
                !.comment = draft.baseComment,
                !.status = draft.baseStatus,
                !.rubricCommentsDirty = FALSE,
                !.gradeDirty = FALSE,
                !.commentDirty = FALSE,
                !.statusDirty = FALSE,
                !.synced = TRUE]

handleClearAllStaged(prev) == [u \in DOMAIN prev |-> ClearedDraft(prev[u])]

\* a clearOne that clears every student's staged changes
handleClearStudentStagedAll(prev, userId) == handleClearAllStaged(prev)

handleClearStudentStaged(prev, userId) ==
  IF ~HasDraft(prev, userId) THEN prev
  ELSE [prev EXCEPT ![userId] = ClearedDraft(prev[userId])]

(***************************************************************************)
(* App.tsx: handleSync.                                                    *)
(***************************************************************************)
\* sortedSubmissions.map(...).filter(Boolean)
buildUpdates(sorted, d) ==
  LET withDraft == Filter(sorted, LAMBDA s : HasDraft(d, s.userId))
  IN [i \in 1..Len(withDraft) |->
        LET draft == d[withDraft[i].userId]
        IN [userId |-> withDraft[i].userId,
            gradeChanged |-> draft.gradeDirty,
            newGrade |-> draft.grade,
            commentChanged |-> draft.commentDirty,
            newComment |-> draft.comment,
            rubricCommentsChanged |-> draft.rubricCommentsDirty,
            newRubricComments |-> draft.rubricComments]]

Changed(u) == u.gradeChanged \/ u.commentChanged \/ u.rubricCommentsChanged

toSend(sorted, d) == Filter(buildUpdates(sorted, d), Changed)

\* a reconciliation that takes every result for a success
everyUserId(res) == {res[i].userId : i \in 1..Len(res)}

\* result.results.filter(r => r.success).map(r => r.userId)
successIds(res) == {res[i].userId : i \in {j \in 1..Len(res) : res[j].success}}

\* a reconciliation that advances the grade's base only
ReconciledGradeOnly(prev, ids) ==
  [u \in DOMAIN prev |->
     IF u \in ids
     THEN [prev[u] EXCEPT !.baseGrade = prev[u].grade,
                          !.gradeDirty = FALSE,
                          !.commentDirty = FALSE,
                          !.statusDirty = FALSE,
                          !.rubricCommentsDirty = FALSE,
                          !.synced = TRUE]
     ELSE prev[u]]

\* the function handleSync passes to setDrafts
Reconciled(prev, ids) ==
  [u \in DOMAIN prev |->
     IF u \in ids
     THEN [prev[u] EXCEPT !.baseGrade = prev[u].grade,
                          !.baseComment = prev[u].comment,
                          !.gradeDirty = FALSE,
                          !.commentDirty = FALSE,
                          !.statusDirty = FALSE,
                          !.rubricCommentsDirty = FALSE,
                          !.synced = TRUE]
     ELSE prev[u]]

(***************************************************************************)
(* canvasClient.ts: pushSubmissionUpdates.                                 *)
(***************************************************************************)
GradeKey == "submission[posted_grade]"
CommentKey == "comment[text_comment]"
RubricKey(criterionId) == "rubric_assessment[" \o criterionId \o "][comments]"

\* a payload that always carries the grade
PayloadWithGrade(update) ==
  LET g == [k \in {GradeKey} |-> update.newGrade]
      c == IF update.commentChanged
           THEN [k \in {CommentKey} |-> update.newComment] ELSE <<>>
  IN Merge(g, c)

Payload(update) ==
  LET g == IF update.gradeChanged
           THEN [k \in {GradeKey} |-> update.newGrade] ELSE <<>>
      c == IF update.commentChanged
           THEN [k \in {CommentKey} |-> update.newComment] ELSE <<>>
      r == IF update.rubricCommentsChanged
           THEN [k \in {RubricKey(cr) : cr \in DOMAIN update.newRubricComments} |->
                   update.newRubricComments[
                     CHOOSE cr \in DOMAIN update.newRubricComments :
                       RubricKey(cr) = k]]
           ELSE <<>>
  IN Merge(Merge(g, c), r)


(***************************************************************************)
(* canvasClient.ts: extractNextLink and fetchAllPages.  A Link header is   *)
(* the sequence of its comma-separated parts, a part being its URL and the *)
(* rel its second piece names ("" when there is no second piece).          *)
(***************************************************************************)
URLs == {"a", "b", "c"}
Rels == {"next", "prev", ""}

\* the items of the page at a URL
PageData(url) ==
  CASE url = "a" -> <<1, 2>>
    [] url = "b" -> <<>>
    [] url = "c" -> <<3>>

LinkParts == [url : URLs, rel : Rels \ {""}] \cup [url : {"a"}, rel : {""}]

\* the Link headers of a response: none, or one or two parts of which at
\* most one is the next link
LinkHeaders ==
  {<<>>} \cup {<<part>> : part \in LinkParts}
         \cup {<<p, q>> : p \in {l \in LinkParts : l.rel = "prev"},
                          q \in {l \in LinkParts : l.rel # ""}}
         \cup {<<p, q>> : p \in {l \in LinkParts : l.rel = "next"},
                          q \in {l \in LinkParts : l.rel = "prev"}}

\* no fetchAllPages is running
NoPages == [url \in URLs |-> [data |-> <<>>, link |-> <<>>]]
IdlePager == [pc |-> "idle", url |-> "a", nextUrl |-> NULL,
              nextParams |-> FALSE, results |-> <<>>]

\* an extractNextLink that takes the first part whatever its rel
extractNextLinkAnyRel(linkHeader) ==
  IF linkHeader = <<>> THEN NULL ELSE Some(linkHeader[1].url)

RECURSIVE extractNextLink(_)
extractNextLink(linkHeader) ==
  IF linkHeader = <<>> THEN NULL
  ELSE IF Head(linkHeader).rel = "next" THEN Some(Head(linkHeader).url)
  ELSE extractNextLink(Tail(linkHeader))

(***************************************************************************)
(* config.ts: the stored configuration and its accessors.                  *)
(***************************************************************************)
defaultKeybindings ==
  [NEXT_FIELD |-> "Tab,ArrowDown", PREV_FIELD |-> "Shift+Tab,ArrowUp",
   NEXT_STUDENT_SAME_FIELD |-> "ArrowRight",
   PREV_STUDENT_SAME_FIELD |-> "ArrowLeft"]

\* process.env.LOG_LEVEL || 'info', with LOG_LEVEL not set
envLogLevel == "info"

\* accessToken: undefined is NULL, a token is Some(token)
defaultConfig ==
  [baseUrl |-> "", courseId |-> NULL, assignmentId |-> NULL,
   accessToken |-> NULL, keybindings |-> defaultKeybindings,
   logLevel |-> envLogLevel]

\* a configuration with every connection key set
completeConfig ==
  [defaultConfig EXCEPT !.baseUrl = "u", !.courseId = Some(7),
                        !.assignmentId = Some(8), !.accessToken = Some("t1")]

\* !value of a course or assignment id: null, 0 and NaN are falsy
FalsyId(id) == id = NULL \/ id = Some(0) \/ id = NaN

\* !value of a token: undefined and '' are falsy
FalsyToken(token) == token = NULL \/ token = Some("")

\* a public view that tells the token t1 from any other
getPublicConfigOfToken(cfg) ==
  [baseUrl |-> cfg.baseUrl,
   courseId |-> cfg.courseId,
   assignmentId |-> cfg.assignmentId,
   keybindings |-> cfg.keybindings,
   logLevel |-> cfg.logLevel,
   tokenPresent |-> cfg.accessToken = Some("t1")]

getPublicConfig(cfg) ==
  [baseUrl |-> cfg.baseUrl,
   courseId |-> cfg.courseId,
   assignmentId |-> cfg.assignmentId,
   keybindings |-> cfg.keybindings,
   logLevel |-> cfg.logLevel,
   tokenPresent |-> ~FalsyToken(cfg.accessToken)]

Given(update, key) == key \in DOMAIN update

\* an updateConfig that forgets the ids its update leaves out
updateConfigReplacing(existing, update) ==
  [keybindings |->
     IF Given(update, "keybindings")
     THEN Merge(Merge(defaultKeybindings, existing.keybindings),
                update.keybindings)
     ELSE existing.keybindings,
   logLevel |->
     IF Given(update, "logLevel") THEN update.logLevel ELSE existing.logLevel,
   accessToken |->
     IF ~Given(update, "accessToken") THEN existing.accessToken
     ELSE IF FalsyToken(update.accessToken) THEN NULL
     ELSE update.accessToken,
   baseUrl |->
     IF ~Given(update, "baseUrl") THEN existing.baseUrl
     ELSE IF update.baseUrl = NULL THEN existing.baseUrl
     ELSE update.baseUrl[1],
   courseId |->
     IF Given(update, "courseId") THEN update.courseId ELSE NULL,
   assignmentId |->
     IF Given(update, "assignmentId") THEN update.assignmentId ELSE NULL]

\* the next cachedConfig; the function returns getPublicConfig() of it.
\* update.baseUrl is NULL or Some(string), update.accessToken NULL or
\* Some(string)
updateConfig(existing, update) ==
  [keybindings |->
     IF Given(update, "keybindings")
     THEN Merge(Merge(defaultKeybindings, existing.keybindings),
                update.keybindings)
     ELSE existing.keybindings,
   logLevel |->
     IF Given(update, "logLevel") THEN update.logLevel ELSE existing.logLevel,
   accessToken |->
     IF ~Given(update, "accessToken") THEN existing.accessToken
     ELSE IF FalsyToken(update.accessToken) THEN NULL
     ELSE update.accessToken,
   baseUrl |->
     IF ~Given(update, "baseUrl") THEN existing.baseUrl
     ELSE IF update.baseUrl = NULL THEN existing.baseUrl
     ELSE update.baseUrl[1],
   courseId |->
     IF Given(update, "courseId") THEN update.courseId ELSE existing.courseId,
   assignmentId |->
     IF Given(update, "assignmentId") THEN update.assignmentId
     ELSE existing.assignmentId]

\* a requireConfig that does not look at the assignmentId
requireConfigOfCourse(cfg) ==
  cfg.baseUrl = "" \/ FalsyId(cfg.courseId) \/ FalsyToken(cfg.accessToken)

\* requireConfig throws
requireConfig(cfg) ==
  \/ cfg.baseUrl = ""
  \/ FalsyId(cfg.courseId)
  \/ FalsyId(cfg.assignmentId)
  \/ FalsyToken(cfg.accessToken)

\* requireCourseConfig throws
requireCourseConfig(cfg) ==
  cfg.baseUrl = "" \/ FalsyId(cfg.courseId) \/ FalsyToken(cfg.accessToken)

(***************************************************************************)
(* configRoutes.ts: POST /config.  A body is a JSON object: a function     *)
(* from the keys it has to the JSON text of their values.                  *)
(***************************************************************************)
NumberTexts == {"0", "7", "8", "9"}
StringTexts == {"''", "' u '", "'u'", "'7'", "'x'", "'t1'", "'t2'", "'debug'",
                "'info'"}

\* the number a JSON number text denotes
NumberOf(text) ==
  CASE text = "0" -> 0 [] text = "7" -> 7 [] text = "8" -> 8 [] text = "9" -> 9

\* the string a JSON string text denotes
StringOf(text) ==
  CASE text = "''" -> ""
    [] text = "' u '" -> " u "
    [] text = "'u'" -> "u"
    [] text = "'info'" -> "info"
    [] text = "'7'" -> "7"
    [] text = "'x'" -> "x"
    [] text = "'t1'" -> "t1"
    [] text = "'t2'" -> "t2"
    [] text = "'debug'" -> "debug"

\* body.baseUrl.trim()
TrimUrl(str) == IF str = " u " THEN "u" ELSE IF str = " " THEN "" ELSE str

\* body.x === null ? null : (typeof body.x === 'number' ? body.x : Number(body.x))
IdOf(text) ==
  IF text = "null" THEN NULL
  ELSE IF text \in NumberTexts THEN Some(NumberOf(text))
  ELSE Number(StringOf(text))

Field(key, value) == [k \in {key} |-> value]

\* the sanitized object the route passes to updateConfig
Sanitized(body) ==
  LET baseUrl == IF "baseUrl" \in DOMAIN body /\ body.baseUrl \in StringTexts
                 THEN Field("baseUrl", Some(TrimUrl(StringOf(body.baseUrl))))
                 ELSE <<>>
      courseId == IF "courseId" \in DOMAIN body
                  THEN Field("courseId", IdOf(body.courseId))
                  ELSE <<>>
      assignmentId == IF "assignmentId" \in DOMAIN body
                      THEN Field("assignmentId", IdOf(body.assignmentId))
                      ELSE <<>>
      keybindings == IF "keybindings" \in DOMAIN body
                     THEN Field("keybindings", body.keybindings)
                     ELSE <<>>
      accessToken == IF "accessToken" \in DOMAIN body
                     THEN Field("accessToken",
                                IF body.accessToken = "null" THEN NULL
                                ELSE Some(StringOf(body.accessToken)))
                     ELSE <<>>
      logLevel == IF "logLevel" \in DOMAIN body
                  THEN Field("logLevel", StringOf(body.logLevel))
                  ELSE <<>>
  IN Merge(Merge(Merge(baseUrl, courseId), Merge(assignmentId, keybindings)),
           Merge(accessToken, logLevel))

\* a key left out, or given one of the values
Optional(key, values) == {<<>>} \cup {Field(key, v) : v \in values}

\* the bodies posted to /config
Bodies ==
  {Merge(Merge(Merge(b, c), Merge(a, k)), Merge(t, l)) :
     b \in Optional("baseUrl", {"null", "''", "' u '"}),
     c \in Optional("courseId", {"null", "0", "7", "'7'", "'x'"}),
     a \in Optional("assignmentId", {"null", "8"}),
     k \in Optional("keybindings", {[NEXT_FIELD |-> "Enter"]}),
     t \in Optional("accessToken", {"null", "''", "'t1'", "'t2'"}),
     l \in Optional("logLevel", {"'debug'"})}

(***************************************************************************)
(* The state after construction: nothing loaded, nothing in flight; the    *)
(* remote gradebook holds the roster's scores and assessments.             *)
(***************************************************************************)
Init ==
  /\ config = NULL
  /\ submissions = <<>>
  /\ drafts = <<>>
  /\ loadingSubmissions = FALSE
  /\ syncing = FALSE
  /\ showCommitModal = FALSE
  /\ activeListTab = "all"
  /\ searchQuery = <<>>
  /\ message = "null"
  /\ error = "null"
  /\ autosave = NULL
  /\ fetches = 0
  /\ sentDrafts = NULL
  /\ syncRequest = NULL
  /\ cursor = 1
  /\ results = <<>>
  /\ writes = <<>>
  /\ canvasScore = InitialScore
  /\ canvasRubric = InitialAssessments
  /\ cachedConfig = completeConfig
  /\ remotePages = NoPages
  /\ pager = IdlePager
  /\ requested = <<>>
  /\ demoMode = FALSE
  /\ settingsSaving = FALSE
  /\ served = <<>>
  /\ edits = 0
  /\ ops = 0
  /\ calls = <<>>

(***************************************************************************)
(* Loading submissions.                                                    *)
(***************************************************************************)
\* generateMockSubmissions, cut down to its first student
MockSubmissions ==
  << [userId |-> 1001, userName |-> <<"m", "o", " ", "c", "k">>,
      groupId |-> NULL, groupName |-> NULL, hasSubmission |-> TRUE,
      late |-> FALSE, missing |-> FALSE, excused |-> FALSE,
      score |-> Some(92), rubricAssessments |-> [c \in {"c1"} |-> "r"]] >>

\* loadSubmissions up to its await
StartLoad ==
  /\ loadingSubmissions' = TRUE
  /\ error' = "null"
  /\ message' = "null"
  /\ fetches' = fetches + 1
  /\ served' = Append(served, cachedConfig.assignmentId)
  /\ UNCHANGED <<submissions, drafts, autosave>>
  /\ UNCHANGED <<viewVars, syncVars, gatewayVars>>

Range(seq) == {seq[i] : i \in 1..Len(seq)}

\* a sequence without the first occurrence of a value
Without(seq, value) ==
  LET at == CHOOSE i \in 1..Len(seq) :
              seq[i] = value /\ \A j \in 1..(i - 1) : seq[j] # value
  IN [k \in 1..(Len(seq) - 1) |-> IF k < at THEN seq[k] ELSE seq[k + 1]]

\* the response of GET /api/submissions served for an assignment
RemoteSubmissionsOf(assignmentId) ==
  IF assignmentId = OtherAssignment
  THEN RemoteSubmissions(OtherScore, OtherAssessments)
  ELSE RemoteSubmissions(canvasScore, canvasRubric)

\* a load that creates drafts only when there are none yet
LoadedKeepingDrafts(data, toast) ==
  /\ submissions' = data
  /\ drafts' = IF drafts = <<>>
               THEN Restored(createInitialDrafts(data), autosave)
               ELSE drafts
  /\ message' = toast
  /\ loadingSubmissions' = FALSE

\* loadSubmissions from the point where it has the data, the toast being
\* what setMessage left before
Loaded(data, toast) ==
  /\ LET initialDrafts == createInitialDrafts(data)
         restored == Restored(initialDrafts, autosave)
     IN /\ submissions' = data
        /\ drafts' = restored
        /\ message' =
             LET restoredCount ==
                   Cardinality({u \in DOMAIN restored : restored[u] # initialDrafts[u]})
             IN IF restoredCount > 0
                THEN "Restored unsaved drafts for " \o ToString(restoredCount)
                       \o " students"
                ELSE toast
  /\ loadingSubmissions' = FALSE

\* loadSubmissions in demo mode: nothing is awaited, the mock data is set in
\* the same turn
LoadMock ==
  /\ Loaded(MockSubmissions, "null")
  /\ error' = "null"
  /\ UNCHANGED <<fetches, served, autosave>>
  /\ UNCHANGED <<viewVars, syncVars, gatewayVars>>

\* loadSubmissions as the callback made with uiSettings.demoMode = demo
loadSubmissions(demo) == IF demo THEN LoadMock ELSE StartLoad

\* fetchConfig resolves on mount; the effect on [config] calls loadSubmissions
ConfigLoaded ==
  /\ config = NULL
  /\ config' = Some(1)
  /\ loadSubmissions(demoMode)
  /\ UNCHANGED <<budgetVars, demoMode, settingsSaving>>

\* the Fetch button, disabled while loading
LoadSubmissions ==
  /\ ~loadingSubmissions
  /\ ~showCommitModal
  /\ ops < MaxOps
  /\ ops' = ops + 1
  /\ loadSubmissions(demoMode)
  /\ UNCHANGED <<config, edits, calls, demoMode, settingsSaving>>

\* loadSubmissions after fetchSubmissions resolved
FetchResolves ==
  /\ fetches > 0
  /\ \E assignmentId \in Range(served) :
       /\ Loaded(RemoteSubmissionsOf(assignmentId), message)
       /\ served' = Without(served, assignmentId)
  /\ fetches' = fetches - 1
  /\ UNCHANGED <<config, error, autosave>>
  /\ UNCHANGED <<viewVars, syncVars, gatewayVars, demoMode, settingsSaving, budgetVars>>

\* a failed load that resets what was loaded
FetchRejectsClearing ==
  /\ fetches > 0
  /\ error' = "Failed to fetch submissions"
  /\ loadingSubmissions' = FALSE
  /\ fetches' = fetches - 1
  /\ \E assignmentId \in Range(served) :
       served' = Without(served, assignmentId)
  /\ submissions' = <<>>
  /\ drafts' = <<>>
  /\ UNCHANGED <<config, message, autosave>>
  /\ UNCHANGED <<viewVars, syncVars, gatewayVars, demoMode, settingsSaving, budgetVars>>

\* loadSubmissions after fetchSubmissions rejected
FetchRejects ==
  /\ fetches > 0
  /\ error' = "Failed to fetch submissions"
  /\ loadingSubmissions' = FALSE
  /\ fetches' = fetches - 1
  /\ \E assignmentId \in Range(served) :
       served' = Without(served, assignmentId)
  /\ UNCHANGED <<config, submissions, drafts, message, autosave>>
  /\ UNCHANGED <<viewVars, syncVars, gatewayVars, demoMode, settingsSaving, budgetVars>>

(***************************************************************************)
(* Presentation state.                                                     *)
(***************************************************************************)
SetActiveListTab ==
  /\ ~showCommitModal
  /\ \E tab \in ListTabs :
       /\ tab = "staged" => stats.dirty > 0
       /\ activeListTab' = tab
  /\ UNCHANGED <<showCommitModal, searchQuery, drafts, autosave>>
  /\ UNCHANGED <<loadVars, toastVars, syncVars, gatewayVars, demoMode, settingsSaving, budgetVars>>

SetSearchQuery ==
  /\ ~showCommitModal
  /\ \E q \in SearchInputs : searchQuery' = q
  /\ UNCHANGED <<showCommitModal, activeListTab, drafts, autosave>>
  /\ UNCHANGED <<loadVars, toastVars, syncVars, gatewayVars, demoMode, settingsSaving, budgetVars>>

(***************************************************************************)
(* Edits: the rows of sortedSubmissions are rendered unless loading, and   *)
(* the commit dialog covers them while it is open.                         *)
(***************************************************************************)
RowsShown == ~showCommitModal /\ ~loadingSubmissions

\* the draft a row is rendered with
RowDraft(u) ==
  IF HasDraft(drafts, u) THEN drafts[u]
  ELSE LET s == Find(submissions, u)[1]
       IN [grade |-> s.score, comment |-> "", baseGrade |-> s.score,
           baseComment |-> "", gradeDirty |-> FALSE, commentDirty |-> FALSE,
           synced |-> TRUE, rubricComments |-> <<>>,
           rubricCommentsDirty |-> FALSE]

\* isDirty of StudentRow
RowDirty(u) == AnyDirty(Merge([statusDirty |-> FALSE], RowDraft(u)))

showGroups == activeListTab = "group" /\ hasGroups(submissions)

\* an edit is possible: its row is on screen and the exploration has budget
CanEdit == RowsShown /\ edits < MaxEdits /\ ops < MaxOps

EditFrame ==
  /\ edits' = edits + 1
  /\ ops' = ops + 1
  /\ UNCHANGED <<autosave, calls>>
  /\ UNCHANGED <<loadVars, viewVars, toastVars, syncVars, gatewayVars, demoMode, settingsSaving>>

GradeChange ==
  /\ CanEdit
  /\ \E u \in VisibleIds, value \in RawGrades :
       drafts' = handleGradeChange(drafts, u, value)
  /\ EditFrame

CommentChange ==
  /\ CanEdit
  /\ \E u \in VisibleIds, value \in CommentTexts :
       drafts' = handleCommentChange(drafts, u, value)
  /\ EditFrame

RubricCommentChange ==
  /\ CanEdit
  /\ \E u \in VisibleIds, criterionId \in Criteria, value \in RubricTexts :
       drafts' = handleRubricCommentChange(drafts, u, criterionId, value)
  /\ EditFrame

StatusChange ==
  /\ CanEdit
  /\ \E u \in VisibleIds, status \in StatusInputs :
       drafts' = handleStatusChange(drafts, u, status)
  /\ EditFrame

\* the "Copy to Group" button under the comment box
CopyToGroup ==
  /\ CanEdit
  /\ showGroups
  /\ \E u \in VisibleIds :
       /\ RowDraft(u).comment # ""
       /\ drafts' = handleCopyToGroup(drafts, submissions, u, RowDraft(u).comment)
  /\ EditFrame

\* the "Copy to Group" button under the grade box
CopyGradeToGroup ==
  /\ CanEdit
  /\ showGroups
  /\ \E u \in VisibleIds :
       /\ RowDraft(u).grade # NULL
       /\ drafts' = handleCopyGradeToGroup(drafts, submissions, u, RowDraft(u).grade)
  /\ EditFrame

\* the Clear All button of the Staged tab
ClearAllStaged ==
  /\ ~showCommitModal
  /\ activeListTab = "staged"
  /\ stats.dirty > 0
  /\ drafts' = handleClearAllStaged(drafts)
  /\ message' = "Cleared all staged changes"
  /\ UNCHANGED <<error, autosave>>
  /\ UNCHANGED <<loadVars, viewVars, syncVars, gatewayVars, demoMode, settingsSaving, budgetVars>>

\* the clear button of a dirty row
ClearStudentStaged ==
  /\ RowsShown
  /\ \E u \in VisibleIds :
       /\ RowDirty(u)
       /\ drafts' = handleClearStudentStaged(drafts, u)
  /\ UNCHANGED autosave
  /\ UNCHANGED <<loadVars, viewVars, toastVars, syncVars, gatewayVars, demoMode, settingsSaving,
                 budgetVars>>

(***************************************************************************)
(* Autosave tick (setInterval).                                            *)
(***************************************************************************)
\* a save that writes the snapshot whether or not anything is staged
AutoSaveAlways ==
  /\ ops < MaxOps
  /\ autosave' = Some(Stringify(drafts))
  /\ ops' = ops + 1
  /\ UNCHANGED <<drafts, edits, calls>>
  /\ UNCHANGED <<loadVars, viewVars, toastVars, syncVars, gatewayVars, demoMode, settingsSaving>>

\* save: writes the snapshot when some draft is dirty
AutoSave ==
  /\ ops < MaxOps
  /\ \E u \in DOMAIN drafts : AnyDirty(drafts[u])
  /\ autosave' = Some(Stringify(drafts))
  /\ ops' = ops + 1
  /\ UNCHANGED <<drafts, edits, calls>>
  /\ UNCHANGED <<loadVars, viewVars, toastVars, syncVars, gatewayVars, demoMode, settingsSaving>>

(***************************************************************************)
(* The commit dialog and handleSync.                                       *)
(***************************************************************************)
\* the Review button of the Staged tab
OpenCommitModal ==
  /\ ~showCommitModal
  /\ activeListTab = "staged"
  /\ stats.dirty > 0
  /\ ~syncing
  /\ ~demoMode
  /\ showCommitModal' = TRUE
  /\ UNCHANGED <<activeListTab, searchQuery, drafts, autosave>>
  /\ UNCHANGED <<loadVars, toastVars, syncVars, gatewayVars, demoMode, settingsSaving, budgetVars>>

\* the Cancel and close buttons of the dialog
CloseCommitModal ==
  /\ showCommitModal
  /\ showCommitModal' = FALSE
  /\ UNCHANGED <<activeListTab, searchQuery, drafts, autosave>>
  /\ UNCHANGED <<loadVars, toastVars, syncVars, gatewayVars, demoMode, settingsSaving, budgetVars>>

\* the Push button of the dialog: handleSync up to its await
PushChanges ==
  /\ showCommitModal
  /\ ~syncing
  /\ ops < MaxOps
  /\ ops' = ops + 1
  /\ showCommitModal' = FALSE
  /\ LET batch == toSend(Visible, drafts)
     IN IF Len(Visible) = 0
        THEN UNCHANGED <<toastVars, syncVars, syncRequest, cursor, results,
                         writes>>
        ELSE IF Len(batch) = 0
        THEN /\ message' = "No staged changes to sync"
             /\ UNCHANGED <<error, syncVars, syncRequest, cursor, results,
                            writes>>
        ELSE /\ syncing' = TRUE
             /\ error' = "null"
             /\ sentDrafts' = Some(drafts)
             /\ syncRequest' = Some(batch)
             /\ cursor' = 1
             /\ results' = <<>>
             /\ writes' = <<>>
             /\ UNCHANGED message
  /\ UNCHANGED <<activeListTab, searchQuery, drafts, autosave, edits, calls,
                 canvasScore, canvasRubric, cachedConfig, pageVars, demoMode, settingsSaving>>
  /\ UNCHANGED loadVars

(***************************************************************************)
(* The backend: POST /submissions/sync runs pushSubmissionUpdates.         *)
(***************************************************************************)
\* the for loop has updates left
Pushing == syncRequest # NULL /\ cursor <= Len(syncRequest[1])

\* the loop is over: the route sends { results }
Returned == syncRequest # NULL /\ cursor > Len(syncRequest[1])

\* the client.put calls that have not settled
Pending == {i \in 1..Len(writes) : writes[i].outcome = "pending"}

\* a loop that does not await client.put
IssueAnytime == TRUE

\* await client.put(...): the next iteration starts when the call has settled
CanIssue == Pending = {}

\* a loop whose catch block pushes no result
SettledSuccesses(res, userId, ok) ==
  IF ok THEN Append(res, [userId |-> userId, success |-> TRUE]) ELSE res

\* results.push after the put settled
SettledResults(res, userId, ok) ==
  Append(res, [userId |-> userId, success |-> ok])

\* one iteration of the loop, up to its await
IssueWrite ==
  /\ Pushing
  /\ CanIssue
  /\ LET update == syncRequest[1][cursor]
     IN IF ~Changed(update)
        THEN /\ results' = Append(results, [userId |-> update.userId,
                                            success |-> TRUE])
             /\ cursor' = cursor + 1
             /\ UNCHANGED writes
        ELSE /\ writes' = Append(writes, [userId |-> update.userId,
                                          payload |-> Payload(update),
                                          outcome |-> "pending"])
             /\ UNCHANGED <<results, cursor>>
  /\ UNCHANGED <<syncRequest, canvasScore, canvasRubric, cachedConfig, pageVars, demoMode, settingsSaving>>
  /\ UNCHANGED <<frontVars, budgetVars>>

\* the remote applies the rubric comments of a write
Applied(rubric, payload) ==
  [c \in (DOMAIN rubric) \cup {cr \in Criteria : RubricKey(cr) \in DOMAIN payload} |->
     IF RubricKey(c) \in DOMAIN payload THEN payload[RubricKey(c)] ELSE rubric[c]]

\* the awaited client.put settles: the rest of the iteration
WriteSettles ==
  /\ Pending # {}
  /\ \E i \in Pending, ok \in BOOLEAN :
       LET w == writes[i]
       IN /\ ok => w.userId \in UserIds
          /\ writes' = [writes EXCEPT ![i].outcome = IF ok THEN "ok" ELSE "failed"]
          /\ results' = SettledResults(results, w.userId, ok)
          /\ canvasScore' =
               IF ok /\ GradeKey \in DOMAIN w.payload
               THEN [canvasScore EXCEPT ![w.userId] = w.payload[GradeKey]]
               ELSE canvasScore
          /\ canvasRubric' =
               IF ok
               THEN [canvasRubric EXCEPT ![w.userId] = Applied(@, w.payload)]
               ELSE canvasRubric
  /\ cursor' = cursor + 1
  /\ UNCHANGED <<syncRequest, cachedConfig, pageVars, demoMode, settingsSaving>>
  /\ UNCHANGED <<frontVars, budgetVars>>

(***************************************************************************)
(* handleSync after its await.                                             *)
(***************************************************************************)
failedIds(res) == {res[i].userId : i \in {j \in 1..Len(res) : ~res[j].success}}

\* the toast after a sync that resolved
SyncedText(res) ==
  LET successes == Cardinality({i \in 1..Len(res) : res[i].success})
      failures == Cardinality({i \in 1..Len(res) : ~res[i].success})
  IN IF failures > 0
     THEN "Synced " \o ToString(successes) \o " students. "
            \o ToString(failures) \o " failed."
     ELSE "Synced " \o ToString(successes)
            \o " students. View History to review."

\* syncSubmissions resolved with { results }
SyncResolves ==
  /\ syncing
  /\ Returned
  /\ drafts' = Reconciled(drafts, successIds(results))
  /\ IF failedIds(results) # {}
     THEN error' = SyncedText(results) /\ UNCHANGED message
     ELSE message' = SyncedText(results) /\ UNCHANGED error
  /\ syncing' = FALSE
  /\ sentDrafts' = NULL
  /\ syncRequest' = NULL
  /\ UNCHANGED <<cursor, results, writes, canvasScore, canvasRubric,
                 cachedConfig, pageVars, demoMode, settingsSaving, autosave>>
  /\ UNCHANGED <<loadVars, viewVars, budgetVars>>

\* syncSubmissions rejected: the request never reached the loop (no
\* configuration, no connection) or its response was lost
SyncRejects ==
  /\ syncing
  /\ syncRequest # NULL
  /\ (cursor = 1 /\ writes = <<>>) \/ Returned
  /\ error' = "Failed to sync changes"
  /\ syncing' = FALSE
  /\ sentDrafts' = NULL
  /\ syncRequest' = NULL
  /\ UNCHANGED <<message, drafts, autosave>>
  /\ UNCHANGED <<cursor, results, writes, canvasScore, canvasRubric,
                 cachedConfig, pageVars, demoMode, settingsSaving>>
  /\ UNCHANGED <<loadVars, viewVars, budgetVars>>

Next ==
  \/ ConfigLoaded
  \/ LoadSubmissions
  \/ FetchResolves
  \/ FetchRejects
  \/ SetActiveListTab
  \/ SetSearchQuery
  \/ GradeChange
  \/ CommentChange
  \/ RubricCommentChange
  \/ StatusChange
  \/ CopyToGroup
  \/ CopyGradeToGroup
  \/ ClearAllStaged
  \/ ClearStudentStaged
  \/ AutoSave
  \/ OpenCommitModal
  \/ CloseCommitModal
  \/ PushChanges
  \/ IssueWrite
  \/ WriteSettles
  \/ SyncResolves
  \/ SyncRejects

Spec == Init /\ [][Next]_vars

(***************************************************************************)
(* The Sync Gateway on its own: pushSubmissionUpdates applied to every     *)
(* batch of at most MaxBatch updates, as POST /submissions/sync accepts    *)
(* them from any client.                                                   *)
(***************************************************************************)
MaxBatch == 3

GatewayUpdates ==
  {[userId |-> u,
    gradeChanged |-> g, newGrade |-> Some(8),
    commentChanged |-> c, newComment |-> "a",
    rubricCommentsChanged |-> r, newRubricComments |-> [c1 |-> "r"]] :
     u \in {1, 2}, g \in BOOLEAN, c \in BOOLEAN, r \in BOOLEAN}

Batches == UNION {[1..n -> GatewayUpdates] : n \in 0..MaxBatch}

GatewayInit ==
  /\ config = Some(1)
  /\ submissions = <<>>
  /\ drafts = <<>>
  /\ loadingSubmissions = FALSE
  /\ syncing = FALSE
  /\ showCommitModal = FALSE
  /\ activeListTab = "all"
  /\ searchQuery = <<>>
  /\ message = "null"
  /\ error = "null"
  /\ autosave = NULL
  /\ fetches = 0
  /\ sentDrafts = NULL
  /\ \E batch \in Batches : syncRequest = Some(batch)
  /\ cursor = 1
  /\ results = <<>>
  /\ writes = <<>>
  /\ canvasScore = InitialScore
  /\ canvasRubric = InitialAssessments
  /\ cachedConfig = completeConfig
  /\ remotePages = NoPages
  /\ pager = IdlePager
  /\ requested = <<>>
  /\ demoMode = FALSE
  /\ settingsSaving = FALSE
  /\ served = <<>>
  /\ edits = 0
  /\ ops = 0
  /\ calls = <<>>

GatewayNext == IssueWrite \/ WriteSettles

GatewaySpec == GatewayInit /\ [][GatewayNext]_vars

(***************************************************************************)
(* The draft map on its own: createInitialDrafts applied to lists of       *)
(* submissions, and the functions the handlers pass to setDrafts applied   *)
(* to the result, for userIds with and without a DraftState.               *)
(***************************************************************************)
MaxCalls == 2

\* the submissions a student can have: any score, status flags, assessment
SubmissionsOf(i) ==
  {Merge(Roster[i], [late |-> l, missing |-> m, excused |-> e, score |-> sc,
                     rubricAssessments |-> InitialAssessments[Roster[i].userId]]) :
     l \in BOOLEAN, m \in BOOLEAN, e \in BOOLEAN,
     sc \in {NULL, Some(0), Some(7)}}

\* lists of one submission per student, as fetchSubmissions returns them
SubmissionLists ==
  {<<>>} \cup {<<a>> : a \in SubmissionsOf(1)}
         \cup {<<a, b>> : a \in SubmissionsOf(1),
                          b \in {sub \in SubmissionsOf(2) :
                                   sub.score = NULL /\ InitialStatus(sub) = "late"}}

\* student 3 never has a DraftState here
CallIds == {1, 2, 3}
GradeInputs == {"", " ", "0", "8", "x"}

DraftInit ==
  /\ config = Some(1)
  /\ submissions \in SubmissionLists
  /\ drafts = <<>>
  /\ loadingSubmissions = FALSE
  /\ syncing = FALSE
  /\ showCommitModal = FALSE
  /\ activeListTab = "all"
  /\ searchQuery = <<>>
  /\ message = "null"
  /\ error = "null"
  /\ autosave = NULL
  /\ fetches = 0
  /\ sentDrafts = NULL
  /\ syncRequest = NULL
  /\ cursor = 1
  /\ results = <<>>
  /\ writes = <<>>
  /\ canvasScore = InitialScore
  /\ canvasRubric = InitialAssessments
  /\ cachedConfig = completeConfig
  /\ remotePages = NoPages
  /\ pager = IdlePager
  /\ requested = <<>>
  /\ demoMode = FALSE
  /\ settingsSaving = FALSE
  /\ served = <<>>
  /\ edits = 0
  /\ ops = 0
  /\ calls = <<>>

\* everything but the draft map and the record of calls
restVars == <<loadVars, viewVars, error, syncVars, gatewayVars, demoMode, settingsSaving, autosave,
              edits, ops>>

\* setDrafts(createInitialDrafts(data.submissions)), before any handler runs
CreateDrafts ==
  /\ calls = <<>>
  /\ drafts = <<>>
  /\ submissions # <<>>
  /\ drafts' = createInitialDrafts(submissions)
  /\ UNCHANGED <<calls, message, restVars>>

Called(op, userId, criterionId, value) ==
  /\ Len(calls) < MaxCalls
  /\ calls' = Append(calls, [op |-> op, userId |-> userId,
                             criterionId |-> criterionId, value |-> value])
  /\ UNCHANGED restVars

CallGradeChange ==
  \E u \in CallIds, value \in GradeInputs :
    /\ drafts' = handleGradeChange(drafts, u, value)
    /\ Called("setGrade", u, "", value)
    /\ UNCHANGED message

CallCommentChange ==
  \E u \in CallIds, value \in CommentTexts :
    /\ drafts' = handleCommentChange(drafts, u, value)
    /\ Called("setComment", u, "", value)
    /\ UNCHANGED message

CallStatusChange ==
  \E u \in CallIds, status \in StatusInputs :
    /\ drafts' = handleStatusChange(drafts, u, status)
    /\ Called("setStatus", u, "", status)
    /\ UNCHANGED message

CallRubricCommentChange ==
  \E u \in CallIds, criterionId \in Criteria, value \in RubricTexts :
    /\ drafts' = handleRubricCommentChange(drafts, u, criterionId, value)
    /\ Called("setRubricComment", u, criterionId, value)
    /\ UNCHANGED message

CallClearStudentStaged ==
  \E u \in CallIds :
    /\ drafts' = handleClearStudentStaged(drafts, u)
    /\ Called("clearOne", u, "", "")
    /\ UNCHANGED message

CallClearAllStaged ==
  /\ drafts' = handleClearAllStaged(drafts)
  /\ message' = "Cleared all staged changes"
  /\ Called("clearAll", 0, "", "")

DraftNext ==
  \/ CreateDrafts
  \/ CallGradeChange
  \/ CallCommentChange
  \/ CallStatusChange
  \/ CallRubricCommentChange
  \/ CallClearStudentStaged
  \/ CallClearAllStaged

DraftSpec == DraftInit /\ [][DraftNext]_vars

\* the call applied by a step that applied one
LastCall == calls'[Len(calls')]

(***************************************************************************)
(* App.tsx: handleCopyToGroup and handleCopyGradeToGroup on rosters whose  *)
(* students are in one of two groups or in none.                           *)
(***************************************************************************)
GroupIds == {NULL, Some(5), Some(6)}
GroupName(g) ==
  IF g = NULL THEN NULL ELSE IF g = Some(5) THEN <<"g", "5">> ELSE <<"g", "6">>

\* a loaded submission of student i in group g with the score sc
GroupedSubmission(i, g, sc) ==
  Merge(Roster[i], [groupId |-> g, groupName |-> GroupName(g), score |-> sc,
                    rubricAssessments |-> InitialAssessments[Roster[i].userId]])

\* rosters of three students, each in group 5, in group 6 or in no group
GroupedLists ==
  {<<GroupedSubmission(1, g1, s1), GroupedSubmission(2, g2, s2),
     GroupedSubmission(3, g3, NULL)>> :
     g1 \in GroupIds, g2 \in GroupIds, g3 \in GroupIds,
     s1 \in {NULL, Some(7)}, s2 \in {NULL, Some(7)}}

\* the values the copy handlers are called with
CopyGrades == {NULL, Some(7), Some(8)}

GroupInit ==
  /\ config = Some(1)
  /\ submissions \in GroupedLists
  /\ drafts = createInitialDrafts(submissions)
  /\ loadingSubmissions = FALSE
  /\ syncing = FALSE
  /\ showCommitModal = FALSE
  /\ activeListTab = "group"
  /\ searchQuery = <<>>
  /\ message = "null"
  /\ error = "null"
  /\ autosave = NULL
  /\ fetches = 0
  /\ sentDrafts = NULL
  /\ syncRequest = NULL
  /\ cursor = 1
  /\ results = <<>>
  /\ writes = <<>>
  /\ canvasScore = InitialScore
  /\ canvasRubric = InitialAssessments
  /\ cachedConfig = completeConfig
  /\ remotePages = NoPages
  /\ pager = IdlePager
  /\ requested = <<>>
  /\ demoMode = FALSE
  /\ settingsSaving = FALSE
  /\ served = <<>>
  /\ edits = 0
  /\ ops = 0
  /\ calls = <<>>

CallCopyToGroup ==
  \E u \in UserIds, comment \in CommentTexts :
    /\ drafts' = handleCopyToGroup(drafts, submissions, u, comment)
    /\ Called("copyComment", u, "", comment)
    /\ UNCHANGED message

CallCopyGradeToGroup ==
  \E u \in UserIds, grade \in CopyGrades :
    /\ drafts' = handleCopyGradeToGroup(drafts, submissions, u, grade)
    /\ Called("copyGrade", u, "", grade)
    /\ UNCHANGED message

GroupNext ==
  \/ CallCopyToGroup
  \/ CallCopyGradeToGroup

GroupSpec == GroupInit /\ [][GroupNext]_vars

(***************************************************************************)
(* App.tsx: loadSubmissions with a snapshot in local storage that an       *)
(* earlier session saved, for a roster that may have changed since.        *)
(***************************************************************************)
\* the DraftStates a snapshot can hold for a student: as loaded, or with a
\* staged grade, rubric comment or status
SavedEntries(u) ==
  LET loaded == createInitialDrafts(RemoteSubmissions(InitialScore,
                                                      InitialAssessments))
  IN {loaded[u],
      handleGradeChange(loaded, u, "8")[u],
      handleRubricCommentChange(loaded, u, "c1", "r")[u],
      handleStatusChange(loaded, u, "excused")[u]}

\* what useAutoSave has written: nothing, or the draft map of the students
\* loaded at the time, of which at least one had a staged edit
SavedSnapshots ==
  {NULL} \cup
  {Some(Stringify(d)) :
     d \in {m \in UNION {[S -> UNION {SavedEntries(u) : u \in UserIds}] :
                          S \in SUBSET UserIds \ {{}}} :
             /\ \A u \in DOMAIN m : m[u] \in SavedEntries(u)
             /\ \E u \in DOMAIN m : AnyDirty(m[u])}}

\* what a later fetch returns: some of the students, student 1 with the
\* score 7 or 9
ReloadLists ==
  {Filter(RemoteSubmissions([InitialScore EXCEPT ![1] = sc], InitialAssessments),
          LAMBDA sub : sub.userId \in S) :
     S \in SUBSET UserIds, sc \in {Some(7), Some(9)}}

\* the page opens with a snapshot in local storage and the first load running
RestoreInit ==
  /\ config = Some(1)
  /\ submissions = <<>>
  /\ drafts = <<>>
  /\ loadingSubmissions = TRUE
  /\ syncing = FALSE
  /\ showCommitModal = FALSE
  /\ activeListTab = "all"
  /\ searchQuery = <<>>
  /\ message = "null"
  /\ error = "null"
  /\ autosave \in SavedSnapshots
  /\ fetches = 1
  /\ sentDrafts = NULL
  /\ syncRequest = NULL
  /\ cursor = 1
  /\ results = <<>>
  /\ writes = <<>>
  /\ canvasScore = InitialScore
  /\ canvasRubric = InitialAssessments
  /\ cachedConfig = completeConfig
  /\ remotePages = NoPages
  /\ pager = IdlePager
  /\ requested = <<>>
  /\ demoMode = FALSE
  /\ settingsSaving = FALSE
  /\ served = <<completeConfig.assignmentId>>
  /\ edits = 0
  /\ ops = 0
  /\ calls = <<>>

\* the Fetch button, disabled while loading
Reload ==
  /\ ~loadingSubmissions
  /\ StartLoad
  /\ UNCHANGED <<config, budgetVars, demoMode, settingsSaving>>

\* loadSubmissions after fetchSubmissions resolved with some roster
ReloadResolves ==
  /\ fetches > 0
  /\ \E data \in ReloadLists :
       LET initialDrafts == createInitialDrafts(data)
           restored == Restored(initialDrafts, autosave)
           restoredCount ==
             Cardinality({u \in DOMAIN restored : restored[u] # initialDrafts[u]})
       IN /\ submissions' = data
          /\ drafts' = restored
          /\ message' = IF restoredCount > 0
                        THEN "Restored unsaved drafts for "
                               \o ToString(restoredCount) \o " students"
                        ELSE message
  /\ loadingSubmissions' = FALSE
  /\ fetches' = fetches - 1
  /\ \E assignmentId \in Range(served) :
       served' = Without(served, assignmentId)
  /\ UNCHANGED <<config, error, autosave>>
  /\ UNCHANGED <<viewVars, syncVars, gatewayVars, demoMode, settingsSaving, budgetVars>>

RestoreNext ==
  \/ Reload
  \/ ReloadResolves

RestoreSpec == RestoreInit /\ [][RestoreNext]_vars

(***************************************************************************)
(* The stored configuration on its own: POST /config on an installation    *)
(* with or without a config.json.                                          *)
(***************************************************************************)
ConfigInit ==
  /\ config = NULL
  /\ submissions = <<>>
  /\ drafts = <<>>
  /\ loadingSubmissions = FALSE
  /\ syncing = FALSE
  /\ showCommitModal = FALSE
  /\ activeListTab = "all"
  /\ searchQuery = <<>>
  /\ message = "null"
  /\ error = "null"
  /\ autosave = NULL
  /\ fetches = 0
  /\ sentDrafts = NULL
  /\ syncRequest = NULL
  /\ cursor = 1
  /\ results = <<>>
  /\ writes = <<>>
  /\ canvasScore = InitialScore
  /\ canvasRubric = InitialAssessments
  /\ cachedConfig \in {defaultConfig, completeConfig}
  /\ remotePages = NoPages
  /\ pager = IdlePager
  /\ requested = <<>>
  /\ demoMode = FALSE
  /\ settingsSaving = FALSE
  /\ served = <<>>
  /\ edits = 0
  /\ ops = 0
  /\ calls = <<>>

remoteVars == <<syncRequest, cursor, results, writes, canvasScore, canvasRubric>>

\* router.post('/config')
PostConfig ==
  /\ \E body \in Bodies :
       cachedConfig' = updateConfig(cachedConfig, Sanitized(body))
  /\ UNCHANGED <<frontVars, budgetVars, remoteVars, pageVars, demoMode, settingsSaving>>

ConfigNext == PostConfig

ConfigSpec == ConfigInit /\ [][ConfigNext]_vars

(***************************************************************************)
(* submissionsRoutes.ts: the routes that need the configuration, with any  *)
(* configuration POST /config can have stored.                             *)
(***************************************************************************)
\* the arrays posted to /submissions/sync: nothing, or one update of student 1
SyncBodies ==
  {<<>>} \cup {<<update>> : update \in {u \in GatewayUpdates :
                                         u.userId = 1 /\ ~u.commentChanged}}

\* what POST /config stores from a body without keybindings and logLevel
StoredConfigs ==
  {updateConfig(defaultConfig, Sanitized(body)) :
     body \in {b \in Bodies : DOMAIN b \cap {"keybindings", "logLevel"} = {}}}

RouteInit ==
  /\ config = NULL
  /\ submissions = <<>>
  /\ drafts = <<>>
  /\ loadingSubmissions = FALSE
  /\ syncing = FALSE
  /\ showCommitModal = FALSE
  /\ activeListTab = "all"
  /\ searchQuery = <<>>
  /\ message = "null"
  /\ error = "null"
  /\ autosave = NULL
  /\ fetches = 0
  /\ sentDrafts = NULL
  /\ syncRequest = NULL
  /\ cursor = 1
  /\ results = <<>>
  /\ writes = <<>>
  /\ canvasScore = InitialScore
  /\ canvasRubric = InitialAssessments
  /\ cachedConfig \in StoredConfigs
  /\ remotePages = NoPages
  /\ pager = IdlePager
  /\ requested = <<>>
  /\ demoMode = FALSE
  /\ settingsSaving = FALSE
  /\ served = <<>>
  /\ edits = 0
  /\ ops = 0
  /\ calls = <<>>

\* a request to a route that needs the configuration, and what became of it
RouteCalled(route, outcome) ==
  /\ Len(calls) < MaxCalls
  /\ calls' = Append(calls, [op |-> route, userId |-> 0, criterionId |-> "",
                             value |-> outcome])
  /\ UNCHANGED <<frontVars, edits, ops, cachedConfig, pageVars, demoMode, settingsSaving>>

\* router.post('/submissions/sync') up to the call of pushSubmissionUpdates
SyncRoute ==
  /\ syncRequest = NULL
  /\ \E isArray \in BOOLEAN, updates \in SyncBodies :
       IF ~isArray
       THEN RouteCalled("postSync", "invalid") /\ UNCHANGED remoteVars
       ELSE IF requireConfig(cachedConfig)
       THEN RouteCalled("postSync", "rejected") /\ UNCHANGED remoteVars
       ELSE /\ RouteCalled("postSync", "accepted")
            /\ syncRequest' = Some(updates)
            /\ cursor' = 1
            /\ results' = <<>>
            /\ writes' = <<>>
            /\ UNCHANGED <<canvasScore, canvasRubric>>

\* res.json({ results })
SyncResponds ==
  /\ Returned
  /\ syncRequest' = NULL
  /\ UNCHANGED <<cursor, results, writes, canvasScore, canvasRubric,
                 cachedConfig, pageVars, demoMode, settingsSaving>>
  /\ UNCHANGED <<frontVars, budgetVars>>

\* router.get('/submissions') up to the call of fetchSubmissions
SubmissionsRoute ==
  /\ RouteCalled("getSubmissions",
                 IF requireConfig(cachedConfig) THEN "rejected" ELSE "requested")
  /\ UNCHANGED remoteVars

\* router.get('/assignments') up to the call of fetchAssignments
AssignmentsRoute ==
  /\ RouteCalled("getAssignments",
                 IF requireCourseConfig(cachedConfig) THEN "rejected"
                 ELSE "requested")
  /\ UNCHANGED remoteVars

RouteNext ==
  \/ SyncRoute
  \/ IssueWrite
  \/ WriteSettles
  \/ SyncResponds
  \/ SubmissionsRoute
  \/ AssignmentsRoute

RouteSpec == RouteInit /\ [][RouteNext]_vars

(***************************************************************************)
(* canvasClient.ts: fetchAllPages against a remote that serves any chain   *)
(* of pages, finite or cyclic.                                             *)
(***************************************************************************)
PageInit ==
  /\ config = NULL
  /\ submissions = <<>>
  /\ drafts = <<>>
  /\ loadingSubmissions = FALSE
  /\ syncing = FALSE
  /\ showCommitModal = FALSE
  /\ activeListTab = "all"
  /\ searchQuery = <<>>
  /\ message = "null"
  /\ error = "null"
  /\ autosave = NULL
  /\ fetches = 0
  /\ sentDrafts = NULL
  /\ syncRequest = NULL
  /\ cursor = 1
  /\ results = <<>>
  /\ writes = <<>>
  /\ canvasScore = InitialScore
  /\ canvasRubric = InitialAssessments
  /\ cachedConfig = completeConfig
  /\ remotePages \in {[url \in URLs |-> [data |-> PageData(url), link |-> h[url]]] :
                        h \in [URLs -> LinkHeaders]}
  /\ pager = [pc |-> "loop", url |-> "a", nextUrl |-> Some("a"),
              nextParams |-> TRUE, results |-> <<>>]
  /\ requested = <<>>
  /\ demoMode = FALSE
  /\ settingsSaving = FALSE
  /\ served = <<>>
  /\ edits = 0
  /\ ops = 0
  /\ calls = <<>>

pageRest == <<frontVars, budgetVars, remoteVars, cachedConfig, remotePages, demoMode, settingsSaving>>

\* while (nextUrl): client.get(nextUrl, { params: nextParams }), or return
RequestPage ==
  /\ pager.pc = "loop"
  /\ Len(requested) < MaxRequests
  /\ requested' = Append(requested, [url |-> pager.nextUrl[1],
                                      params |-> pager.nextParams])
  /\ pager' = [pager EXCEPT !.pc = "await"]
  /\ UNCHANGED pageRest

\* the response arrives: push its data, follow its next link or return
PageResponds ==
  /\ pager.pc = "await"
  /\ LET response == remotePages[pager.nextUrl[1]]
         next == extractNextLink(response.link)
     IN pager' = [pager EXCEPT
                    !.results = @ \o response.data,
                    !.nextUrl = next,
                    !.nextParams = IF next # NULL THEN FALSE ELSE @,
                    !.pc = IF next # NULL THEN "loop" ELSE "returned"]
  /\ UNCHANGED <<pageRest, requested>>

\* client.get rejects: fetchAllPages rejects with it
PageFails ==
  /\ pager.pc = "await"
  /\ pager' = [pager EXCEPT !.pc = "threw"]
  /\ UNCHANGED <<pageRest, requested>>

PageNext ==
  \/ RequestPage
  \/ PageResponds
  \/ PageFails

\* the event loop runs a ready continuation and the client settles a request
PageSpec ==
  /\ PageInit /\ [][PageNext]_vars
  /\ WF_vars(RequestPage)
  /\ WF_vars(PageResponds \/ PageFails)

(***************************************************************************)
(* App.tsx: demo mode.  The settings dialog and the banner are under the   *)
(* commit dialog while that is open.                                       *)
(***************************************************************************)
DemoInit ==
  /\ config = NULL
  /\ demoMode \in BOOLEAN
  /\ settingsSaving = FALSE
  /\ served = <<>>
  /\ submissions = IF demoMode THEN MockSubmissions ELSE <<>>
  /\ drafts = IF demoMode THEN createInitialDrafts(MockSubmissions) ELSE <<>>
  /\ loadingSubmissions = FALSE
  /\ syncing = FALSE
  /\ showCommitModal = FALSE
  /\ activeListTab = "all"
  /\ searchQuery = <<>>
  /\ message = "null"
  /\ error = "null"
  /\ autosave = NULL
  /\ fetches = 0
  /\ sentDrafts = NULL
  /\ syncRequest = NULL
  /\ cursor = 1
  /\ results = <<>>
  /\ writes = <<>>
  /\ canvasScore = InitialScore
  /\ canvasRubric = InitialAssessments
  /\ cachedConfig = completeConfig
  /\ remotePages = NoPages
  /\ pager = IdlePager
  /\ requested = <<>>
  /\ edits = 0
  /\ ops = 0
  /\ calls = <<>>

\* handleSaveUiSettings with the demo switch flipped (Save of the settings
\* dialog, Exit Demo of the banner) and the effect on [uiSettings.demoMode]
ToggleDemoMode ==
  /\ ~showCommitModal
  /\ ops < MaxOps
  /\ ops' = ops + 1
  /\ demoMode' = ~demoMode
  /\ IF ~demoMode THEN loadSubmissions(TRUE)
     ELSE IF config # NULL THEN loadSubmissions(FALSE)
     ELSE /\ UNCHANGED <<submissions, drafts, loadingSubmissions, fetches,
                       served>>
          /\ UNCHANGED <<toastVars, autosave, viewVars, syncVars, gatewayVars>>
  /\ UNCHANGED <<config, edits, calls, settingsSaving>>

DemoNext ==
  \/ ConfigLoaded
  \/ LoadSubmissions
  \/ FetchResolves
  \/ FetchRejects
  \/ SetActiveListTab
  \/ GradeChange
  \/ OpenCommitModal
  \/ CloseCommitModal
  \/ PushChanges
  \/ IssueWrite
  \/ WriteSettles
  \/ SyncResolves
  \/ SyncRejects
  \/ ToggleDemoMode

DemoSpec == DemoInit /\ [][DemoNext]_vars

(***************************************************************************)
(* App.tsx: handleSelectAssignment.  The course has two assignments with   *)
(* the same students; the backend serves a fetch for the assignment that   *)
(* is configured when the request is made.                                 *)
(***************************************************************************)
AssignmentIds == {completeConfig.assignmentId, OtherAssignment}

\* JSON.stringify of a string and of a nullable number
StringText(str) == "'" \o str \o "'"
NumberText(n) == IF n = NULL THEN "null" ELSE ToString(n[1])

\* JSON.stringify({ ...config, assignmentId: assignment.id })
SelectBody(cfg, assignmentId) ==
  [baseUrl |-> StringText(cfg.baseUrl),
   courseId |-> NumberText(cfg.courseId),
   assignmentId |-> NumberText(assignmentId),
   keybindings |-> cfg.keybindings,
   logLevel |-> StringText(cfg.logLevel),
   tokenPresent |-> cfg.tokenPresent]

\* handleSelectAssignment up to its await, and POST /config storing the
\* assignment (one saveConfig at a time)
SelectAssignment ==
  /\ config # NULL
  /\ ~settingsSaving
  /\ ~showCommitModal
  /\ ops < MaxOps
  /\ ops' = ops + 1
  /\ settingsSaving' = TRUE
  /\ \E assignmentId \in AssignmentIds :
       cachedConfig' =
         updateConfig(cachedConfig,
                      Sanitized(SelectBody(getPublicConfig(cachedConfig),
                                           assignmentId)))
  /\ UNCHANGED <<frontVars, remoteVars, pageVars, demoMode, edits, calls>>

\* saveConfig resolved: setConfig(updated), and the effect on [config]
\* calls loadSubmissions
ConfigSaved ==
  /\ settingsSaving
  /\ settingsSaving' = FALSE
  /\ loadSubmissions(demoMode)
  /\ UNCHANGED <<config, budgetVars, demoMode>>

AssignNext ==
  \/ ConfigLoaded
  \/ LoadSubmissions
  \/ FetchResolves
  \/ FetchRejects
  \/ GradeChange
  \/ ClearStudentStaged
  \/ AutoSave
  \/ SelectAssignment
  \/ ConfigSaved

AssignSpec == Init /\ [][AssignNext]_vars

\* the groupId of the loaded submission of a student
GroupOf(userId) ==
  LET i == CHOOSE j \in 1..Len(submissions) : submissions[j].userId = userId
  IN submissions[i].groupId

\* the other students that share a group with the source of the last call
Targets ==
  {u \in DOMAIN drafts :
     /\ u # LastCall.userId
     /\ GroupOf(LastCall.userId) # NULL
     /\ GroupOf(u) = GroupOf(LastCall.userId)}

(***************************************************************************)
(* Properties of the draft map.                                            *)
(***************************************************************************)
\* C1: in every reachable state every DraftState has gradeDirty =
\* (grade # baseGrade), commentDirty = (comment # baseComment) and
\* statusDirty = (status # baseStatus)
DirtyFlagsDerived ==
  \A u \in DOMAIN drafts :
    /\ drafts[u].gradeDirty = (drafts[u].grade # drafts[u].baseGrade)
    /\ drafts[u].commentDirty = (drafts[u].comment # drafts[u].baseComment)
    /\ drafts[u].statusDirty = (drafts[u].status # drafts[u].baseStatus)

\* C2: in every reachable state every DraftState has synced = TRUE exactly
\* when none of its four dirty flags is set
SyncedDerived ==
  \A u \in DOMAIN drafts : drafts[u].synced = ~AnyDirty(drafts[u])

(***************************************************************************)
(* Properties of reconciliation (the step SyncResolves).                   *)
(***************************************************************************)
\* C3: reconciliation gives every student with a successful result
\* baseGrade = grade and baseComment = comment, clears the four dirty flags
\* and sets synced, and changes none of grade, comment, status and
\* rubricComments
ReconciliationOfSuccesses ==
  [][SyncResolves =>
       \A u \in DOMAIN drafts :
         (\E i \in 1..Len(results) : results[i].userId = u /\ results[i].success)
         => /\ drafts'[u].baseGrade = drafts[u].grade
            /\ drafts'[u].baseComment = drafts[u].comment
            /\ ~drafts'[u].gradeDirty
            /\ ~drafts'[u].commentDirty
            /\ ~drafts'[u].statusDirty
            /\ ~drafts'[u].rubricCommentsDirty
            /\ drafts'[u].synced
            /\ drafts'[u].grade = drafts[u].grade
            /\ drafts'[u].comment = drafts[u].comment
            /\ drafts'[u].status = drafts[u].status
            /\ drafts'[u].rubricComments = drafts[u].rubricComments]_vars

\* a sync resolved, and a student whose edited comment was written has the
\* comment as its base
ReconciledSuccess ==
  /\ ~syncing
  /\ message = "Synced 1 students. View History to review."
  /\ \E i \in 1..Len(results) :
       /\ results[i].success
       /\ results[i].userId \in DOMAIN drafts
       /\ LET draft == drafts[results[i].userId]
          IN /\ draft.comment = "a"
             /\ draft.baseComment = "a"
             /\ ~AnyDirty(draft)
             /\ draft.synced

\* the update handleSync builds from a draft would be sent
StillChanged(draft) ==
  draft.gradeDirty \/ draft.commentDirty \/ draft.rubricCommentsDirty

\* C4: reconciliation leaves the DraftState of every student with a failed
\* result entirely unchanged; a draft not touched since it was sent is as it
\* was before the flush, so the update built from it is sent again
FailedDraftsUnchanged ==
  [][SyncResolves =>
       \A u \in DOMAIN drafts :
         (\E i \in 1..Len(results) : results[i].userId = u /\ ~results[i].success)
         => /\ drafts'[u] = drafts[u]
            /\ (u \in DOMAIN sentDrafts[1] /\ drafts[u] = sentDrafts[1][u])
               => StillChanged(drafts'[u])]_vars

\* a batch of three where only the second write failed: the first and the
\* third student have no dirty flag, the second is still dirty
SecondOfThreeFailed ==
  /\ ~syncing
  /\ error = "Synced 2 students. 1 failed."
  /\ Len(results) = 3
  /\ results[1].success /\ ~results[2].success /\ results[3].success
  /\ \A i \in {1, 3} : ~AnyDirty(drafts[results[i].userId])
  /\ StillChanged(drafts[results[2].userId])

\* C5: a flush whose writes all succeed, with no edit in between, leaves
\* every DraftState with the four dirty flags false, baseGrade = grade and
\* baseComment = comment, so that the next flush has nothing to send
FlushRoundTrip ==
  [][(SyncResolves /\ failedIds(results) = {} /\ drafts = sentDrafts[1]) =>
       /\ \A u \in DOMAIN drafts' :
            /\ ~AnyDirty(drafts'[u])
            /\ drafts'[u].baseGrade = drafts'[u].grade
            /\ drafts'[u].baseComment = drafts'[u].comment
       /\ toSend(submissions', drafts') = <<>>]_vars

(***************************************************************************)
(* Properties of a flush (the step PushChanges).                           *)
(***************************************************************************)
\* the userIds of the updates of a request
SentIds(request) ==
  IF request = NULL THEN {}
  ELSE {request[1][i].userId : i \in 1..Len(request[1])}

\* the students stats.dirty counts
DirtyStudents ==
  {submissions[i].userId :
     i \in {j \in 1..Len(submissions) : IsStaged(drafts, submissions[j].userId)}}

\* C6: a flush sends exactly one update for each dirty student (any of the
\* four dirty flags, as stats.dirty counts them) and none for a clean one
FlushSendsDirtyStudents ==
  [][PushChanges =>
       /\ SentIds(syncRequest') = DirtyStudents
       /\ syncRequest' # NULL =>
            Len(syncRequest'[1]) = Cardinality(DirtyStudents)]_vars

\* C7: the students a flush considers, and sends when changed, are those of
\* every loaded submission with a DraftState, whatever the search query and
\* the active list tab
FlushIgnoresPresentation ==
  [][PushChanges =>
       SentIds(syncRequest') =
         {toSend(submissions, drafts)[i].userId :
            i \in 1..Len(toSend(submissions, drafts))}]_vars

\* a write for the student succeeded whose payload holds the value under
\* one of the keys
WrittenOk(u, keys, value) ==
  \E i \in 1..Len(writes) :
    /\ writes[i].userId = u
    /\ writes[i].outcome = "ok"
    /\ \E k \in keys \cap DOMAIN writes[i].payload : writes[i].payload[k] = value

\* C8: reconciliation clears the dirty flag of a field only if the field's
\* current value was part of a remote write that succeeded; statusDirty in
\* particular only if the edited status was written
ClearedOnlyAfterWrite ==
  [][SyncResolves =>
       \A u \in DOMAIN drafts :
         /\ (drafts[u].gradeDirty /\ ~drafts'[u].gradeDirty)
            => WrittenOk(u, {GradeKey}, drafts[u].grade)
         /\ (drafts[u].commentDirty /\ ~drafts'[u].commentDirty)
            => WrittenOk(u, {CommentKey}, drafts[u].comment)
         /\ (drafts[u].rubricCommentsDirty /\ ~drafts'[u].rubricCommentsDirty)
            => \A c \in DOMAIN drafts[u].rubricComments :
                 WrittenOk(u, {RubricKey(c)}, drafts[u].rubricComments[c])
         /\ (drafts[u].statusDirty /\ ~drafts'[u].statusDirty)
            => WrittenOk(u, {CommentKey} \cup {RubricKey(c) : c \in Criteria},
                         drafts[u].status)]_vars

(***************************************************************************)
(* Properties of pushSubmissionUpdates.                                    *)
(***************************************************************************)
\* C9: pushSubmissionUpdates returns one SyncResult per input update, in
\* input order, the i-th result with the userId of the i-th update, whatever
\* writes fail
OneResultPerUpdate ==
  syncRequest # NULL =>
    /\ Len(results) <= Len(syncRequest[1])
    /\ \A i \in 1..Len(results) : results[i].userId = syncRequest[1][i].userId
    /\ Returned => Len(results) = Len(syncRequest[1])

\* a batch of three has returned, with a failed write, a successful write
\* and an update that needed no write
ReturnedMixedBatch ==
  /\ Returned
  /\ Len(syncRequest[1]) = 3
  /\ Len(results) = 3
  /\ \E i \in 1..3 : ~results[i].success
  /\ \E i \in 1..3 : results[i].success /\ Changed(syncRequest[1][i])
  /\ \E i \in 1..3 : ~Changed(syncRequest[1][i])

\* the updates among the first n of the batch that need a write
Due(batch, n) == Filter(SubSeq(batch, 1, n), Changed)

\* C10: pushSubmissionUpdates issues its writes one at a time in input
\* order, a write only after the one before it has settled, exactly one for
\* every update with a changed flag, also after a write has failed
SequentialWrites ==
  syncRequest # NULL =>
    LET started == IF Pending = {} THEN cursor - 1 ELSE cursor
        due == Due(syncRequest[1], started)
    IN /\ Pending \subseteq {Len(writes)}
       /\ Len(writes) = Len(due)
       /\ \A i \in 1..Len(writes) :
            /\ writes[i].userId = due[i].userId
            /\ writes[i].payload = Payload(due[i])

\* the loop is over and a write was attempted after an earlier one failed
WriteAfterFailure ==
  /\ Returned
  /\ \E i \in 1..Len(writes) :
       /\ writes[i].outcome = "failed"
       /\ \E j \in (i + 1)..Len(writes) : writes[j].outcome = "ok"
  /\ Len(writes) < Len(syncRequest[1])

\* C11: the payload of each write has the grade key exactly when
\* gradeChanged, the comment key exactly when commentChanged, and rubric
\* keys only when rubricCommentsChanged; its values are the update's
PartialPayload ==
  syncRequest # NULL =>
    LET started == IF Pending = {} THEN cursor - 1 ELSE cursor
        due == Due(syncRequest[1], started)
    IN \A i \in 1..Len(writes) :
         i <= Len(due) =>
           LET payload == writes[i].payload
               update == due[i]
           IN /\ (GradeKey \in DOMAIN payload) = update.gradeChanged
              /\ (CommentKey \in DOMAIN payload) = update.commentChanged
              /\ (\E c \in Criteria : RubricKey(c) \in DOMAIN payload)
                 => update.rubricCommentsChanged
              /\ DOMAIN payload \subseteq
                   {GradeKey, CommentKey} \cup {RubricKey(c) : c \in Criteria}
              /\ GradeKey \in DOMAIN payload
                 => payload[GradeKey] = update.newGrade
              /\ CommentKey \in DOMAIN payload
                 => payload[CommentKey] = update.newComment

\* the loop is over and it wrote a comment for an update that also carries
\* a grade whose flag is false, leaving the remote grade as it was
CommentOnlyWritten ==
  /\ Returned
  /\ \E i \in 1..Len(writes) :
       /\ writes[i].outcome = "ok"
       /\ DOMAIN writes[i].payload = {CommentKey}
       /\ \E j \in 1..Len(syncRequest[1]) :
            /\ syncRequest[1][j].userId = writes[i].userId
            /\ ~syncRequest[1][j].gradeChanged
            /\ syncRequest[1][j].newGrade # canvasScore[writes[i].userId]

(***************************************************************************)
(* Properties of the application's network calls.                          *)
(***************************************************************************)
\* C12: a failed write is not retried: a request gets at most one write per
\* student, no write is issued when no flush of the user is in flight, and
\* reconciliation leaves a student whose write failed, and whose draft was
\* not touched since it was sent, dirty and unsynced
FailedWriteNotRetried ==
  [][/\ \A i, j \in 1..Len(writes') :
          i # j => writes'[i].userId # writes'[j].userId
     /\ syncRequest = NULL =>
          (writes' = writes \/ (PushChanges /\ writes' = <<>>))
     /\ SyncResolves =>
          \A u \in failedIds(results) \cap DOMAIN drafts :
            drafts[u] = sentDrafts[1][u]
            => AnyDirty(drafts'[u]) /\ ~drafts'[u].synced]_vars

\* C13: a submissions fetch and a sync push are never in flight at the same
\* time
FetchAndSyncExclusive == ~(fetches > 0 /\ syncing)

\* C14: at most one submissions fetch and at most one sync push are in
\* flight; a sync cannot be triggered while one is in flight
OneRequestInFlight ==
  /\ fetches <= 1
  /\ showCommitModal => ~syncing

\* C15: a submissions fetch that fails leaves the loaded submissions and
\* the whole draft map, staged edits included, as they were when it was
\* triggered: neither starting the fetch nor its failure changes them, the
\* failure only sets the error
FailedFetchKeepsState ==
  [][/\ (LoadSubmissions \/ ConfigLoaded) => UNCHANGED <<submissions, drafts>>
     /\ FetchRejects =>
          /\ UNCHANGED <<submissions, drafts, autosave, message>>
          /\ error' = "Failed to fetch submissions"]_vars

\* a fetch failed while a student had a staged edit
FetchFailedWithStagedEdit ==
  /\ error = "Failed to fetch submissions"
  /\ ~loadingSubmissions
  /\ fetches = 0
  /\ Len(submissions) = Len(Roster)
  /\ \E u \in DOMAIN drafts : AnyDirty(drafts[u])

(***************************************************************************)
(* Properties of createInitialDrafts and of the edit handlers.             *)
(***************************************************************************)
\* C16: createInitialDrafts yields one DraftState per submission, with
\* synced true, the four dirty flags false, grade = baseGrade = score (null
\* for no score), comment = baseComment = '' and status = baseStatus
InitialDraftsClean ==
  [][CreateDrafts =>
       /\ Cardinality(DOMAIN drafts') = Len(submissions)
       /\ \A i \in 1..Len(submissions) :
            /\ submissions[i].userId \in DOMAIN drafts'
            /\ LET draft == drafts'[submissions[i].userId]
               IN /\ draft.synced
                  /\ ~draft.gradeDirty /\ ~draft.commentDirty
                  /\ ~draft.statusDirty /\ ~draft.rubricCommentsDirty
                  /\ draft.grade = submissions[i].score
                  /\ draft.baseGrade = submissions[i].score
                  /\ draft.comment = "" /\ draft.baseComment = ""
                  /\ draft.status = draft.baseStatus]_vars

\* drafts were created for two submissions, one with the score 0 and one
\* with no score
DraftsOfTwoCreated ==
  /\ calls = <<>>
  /\ Len(submissions) = 2
  /\ DOMAIN drafts = {1, 2}
  /\ submissions[1].score = Some(0) /\ drafts[1].grade = Some(0)
  /\ submissions[2].score = NULL /\ drafts[2].grade = NULL

GradeEditIdempotent ==
  [][CallGradeChange =>
       /\ handleGradeChange(drafts', LastCall.userId, LastCall.value) = drafts'
       /\ (/\ LastCall.userId \in DOMAIN drafts'
           /\ (LastCall.value = "" \/ ~IsNaN(Number(LastCall.value)))
           /\ drafts'[LastCall.userId].grade = drafts'[LastCall.userId].baseGrade)
          => ~drafts'[LastCall.userId].gradeDirty]_vars

\* the grade of a student with the base 0 was set to 8 and then back to 0
GradeBackToBase ==
  /\ calls = << [op |-> "setGrade", userId |-> 1, criterionId |-> "", value |-> "8"],
                [op |-> "setGrade", userId |-> 1, criterionId |-> "", value |-> "0"] >>
  /\ 1 \in DOMAIN drafts
  /\ drafts[1].baseGrade = Some(0)
  /\ drafts[1].grade = Some(0)
  /\ ~drafts[1].gradeDirty

\* C19: setGrade, setComment, setStatus, setRubricComment and clearOne,
\* called for a userId that has no DraftState, leave the draft map unchanged
MissingDraftIgnored ==
  [][(/\ calls' # calls
      /\ LastCall.op # "clearAll"
      /\ LastCall.userId \notin DOMAIN drafts) => drafts' = drafts]_vars

\* clearOne was called for student 3, who has no DraftState, while the
\* draft of student 1 had a staged edit
ClearedMissingStudent ==
  /\ Len(calls) = 2
  /\ calls[2].op = "clearOne"
  /\ calls[2].userId = 3
  /\ 3 \notin DOMAIN drafts
  /\ 1 \in DOMAIN drafts
  /\ AnyDirty(drafts[1])

\* C20: after clearOne(id) the DraftState of id has its grade, comment and
\* status equal to their bases, its rubric comments equal to the loaded ones,
\* every dirty flag false and synced true; clearAll does so for every
\* DraftState; neither starts a fetch or a sync
ClearRestoresBase ==
  [][(calls' # calls /\ LastCall.op \in {"clearOne", "clearAll"}) =>
       /\ \A u \in DOMAIN drafts' :
            (LastCall.op = "clearAll" \/ u = LastCall.userId) =>
              LET draft == drafts'[u] IN
              /\ draft.grade = draft.baseGrade
              /\ draft.comment = draft.baseComment
              /\ draft.status = draft.baseStatus
              /\ draft.rubricComments =
                   createInitialDrafts(submissions)[u].rubricComments
              /\ ~AnyDirty(draft)
              /\ draft.synced
       /\ UNCHANGED <<fetches, syncing, syncRequest, writes>>]_vars

\* C21: a copy to the group changes only the DraftStates of the other
\* students with the source's non-null groupId; the source, the students of
\* other groups and the students without a group keep their DraftState, and
\* nothing changes when the source has no group
CopyToGroupFrame ==
  [][(calls' # calls /\ LastCall.op \in {"copyComment", "copyGrade"}) =>
       /\ DOMAIN drafts' = DOMAIN drafts
       /\ \A u \in DOMAIN drafts : u \notin Targets => drafts'[u] = drafts[u]
       /\ GroupOf(LastCall.userId) = NULL => drafts' = drafts]_vars

\* student 1 of group 5 copied the comment "a": student 2 of group 5 got
\* it, student 1 and student 3 of group 6 did not
CopiedWithinGroupOnly ==
  /\ Len(calls) = 1
  /\ calls[1].op = "copyComment"
  /\ calls[1].userId = 1
  /\ calls[1].value = "a"
  /\ GroupOf(1) = Some(5)
  /\ GroupOf(2) = Some(5)
  /\ GroupOf(3) = Some(6)
  /\ drafts[2].comment = "a"
  /\ drafts[1].comment = ""
  /\ drafts[3].comment = ""

\* C22: after a copy of a grade or a comment every other member of the
\* source's group has the field equal to the copied value and its dirty flag
\* set, whatever the value (one equal to the target's base, a null grade)
CopySetsValueAndDirty ==
  [][(calls' # calls /\ LastCall.op \in {"copyComment", "copyGrade"}) =>
       \A u \in Targets :
         /\ LastCall.op = "copyComment" =>
              drafts'[u].comment = LastCall.value /\ drafts'[u].commentDirty
         /\ LastCall.op = "copyGrade" =>
              drafts'[u].grade = LastCall.value /\ drafts'[u].gradeDirty]_vars

\* C23: setRubricComment(userId, criterionId, text) sets the comment of the
\* criterion to text, keeps the comments of the other criteria, sets
\* rubricCommentsDirty (also when the text is the one already there) and
\* clears synced, and changes nothing else of the DraftState nor any other
\* DraftState
RubricCommentEdit ==
  [][(/\ calls' # calls
      /\ LastCall.op = "setRubricComment"
      /\ LastCall.userId \in DOMAIN drafts) =>
       LET before == drafts[LastCall.userId]
           after == drafts'[LastCall.userId]
       IN /\ DOMAIN after.rubricComments =
               DOMAIN before.rubricComments \cup {LastCall.criterionId}
          /\ after.rubricComments[LastCall.criterionId] = LastCall.value
          /\ \A c \in DOMAIN before.rubricComments \ {LastCall.criterionId} :
               after.rubricComments[c] = before.rubricComments[c]
          /\ after.rubricCommentsDirty
          /\ ~after.synced
          /\ after = [before EXCEPT !.rubricComments = after.rubricComments,
                                    !.rubricCommentsDirty = TRUE,
                                    !.synced = FALSE]
          /\ \A u \in DOMAIN drafts \ {LastCall.userId} : drafts'[u] = drafts[u]
          /\ DOMAIN drafts' = DOMAIN drafts]_vars

\* the rubric comment of criterion c1 of student 1 was set to the text it
\* already had and the draft is marked all the same
RubricCommentRetyped ==
  /\ calls = << [op |-> "setRubricComment", userId |-> 1, criterionId |-> "c1",
                 value |-> "r"] >>
  /\ 1 \in DOMAIN drafts
  /\ drafts[1].rubricComments = createInitialDrafts(submissions)[1].rubricComments
  /\ drafts[1].rubricCommentsDirty
  /\ ~drafts[1].synced

\* C24: a load puts the saved entry in place of the fresh DraftState of a
\* userId exactly when the userId is in the loaded submissions and the saved
\* entry has a dirty flag set; saved entries of absent userIds create no
\* DraftState and saved entries without a dirty flag leave the fresh
\* DraftState of createInitialDrafts
RestoreOnlyDirtyAndPresent ==
  [][fetches' < fetches =>
       LET fresh == createInitialDrafts(submissions')
           Saved(u) == autosave # NULL /\ ToString(u) \in DOMAIN autosave[1]
       IN /\ DOMAIN drafts' = {submissions'[i].userId : i \in 1..Len(submissions')}
          /\ \A u \in DOMAIN drafts' :
               IF Saved(u) /\ AnyDirty(autosave[1][ToString(u)])
               THEN drafts'[u] = autosave[1][ToString(u)] /\ drafts'[u] # fresh[u]
               ELSE drafts'[u] = fresh[u]]_vars

\* students 1 and 2 were loaded; the staged grade of student 1 came back, the
\* saved entry of student 2, saved with the old score and nothing staged, did
\* not, and the staged entry of the absent student 3 made no DraftState
RestoredOneOfThree ==
  /\ fetches = 0
  /\ autosave # NULL
  /\ DOMAIN autosave[1] = {"1", "2", "3"}
  /\ AnyDirty(autosave[1]["1"])
  /\ ~AnyDirty(autosave[1]["2"])
  /\ AnyDirty(autosave[1]["3"])
  /\ DOMAIN drafts = {1, 2}
  /\ drafts[1] = autosave[1]["1"]
  /\ drafts[1].baseGrade # createInitialDrafts(submissions)[1].baseGrade
  /\ drafts[2] = createInitialDrafts(submissions)[2]
  /\ message = "Restored unsaved drafts for 1 students"

\* C25: an autosave tick changes neither the draft map nor the loaded
\* submissions and starts no fetch, sync or write, also while a sync is in
\* flight; local storage is written only when some DraftState has a dirty
\* flag set, and then with the snapshot of the current draft map
AutoSaveReadOnly ==
  [][(AutoSave \/ autosave' # autosave) =>
       /\ UNCHANGED <<drafts, submissions>>
       /\ UNCHANGED <<fetches, loadingSubmissions, syncing, sentDrafts>>
       /\ UNCHANGED gatewayVars
       /\ \E u \in DOMAIN drafts : AnyDirty(drafts[u])
       /\ autosave' = Some(Stringify(drafts))]_vars

\* local storage holds the snapshot of the current draft map, with a staged
\* edit in it, while a sync is in flight
SnapshotDuringSync ==
  /\ syncing
  /\ syncRequest # NULL
  /\ autosave = Some(Stringify(drafts))
  /\ \E u \in DOMAIN drafts : AnyDirty(drafts[u])

\* the four counts, taken over the students and their DraftStates
StatsAreProjections ==
  LET loaded == {submissions[i].userId : i \in 1..Len(submissions)}
      Sub(u) == submissions[CHOOSE i \in 1..Len(submissions) :
                              submissions[i].userId = u]
      shown == stats
  IN /\ shown.total = Cardinality(loaded)
     /\ shown.withSubmission = Cardinality({u \in loaded : Sub(u).hasSubmission})
     /\ shown.graded = Cardinality({u \in DOMAIN drafts : drafts[u].grade # NULL})
     /\ shown.dirty =
          Cardinality({u \in DOMAIN drafts :
                         \/ drafts[u].gradeDirty \/ drafts[u].commentDirty
                         \/ drafts[u].statusDirty \/ drafts[u].rubricCommentsDirty})

\* C26: total is the number of loaded submissions, withSubmission the number
\* of them with hasSubmission, graded the number of students whose draft
\* grade is not null and dirty the number with one of the four dirty flags
\* set, before the first load and after every step that changes the
\* submissions or the drafts; so emptying the grade box of a graded student
\* whose last known remote score is not null lowers graded by one and sets
\* the student's gradeDirty
StatsProjectState ==
  [][/\ (submissions = <<>> /\ drafts = <<>>) => StatsAreProjections
     /\ (submissions' # submissions \/ drafts' # drafts) => StatsAreProjections'
     /\ edits' = edits + 1 =>
          \A u \in DOMAIN drafts :
            (/\ drafts[u].grade # NULL
             /\ drafts[u].baseGrade # NULL
             /\ drafts'[u].grade = NULL) =>
              /\ stats'.graded = stats.graded - 1
              /\ drafts'[u].gradeDirty]_vars

\* the grade of student 1, loaded with the score 7, was emptied: nobody is
\* graded any more and one student is staged
GradeEmptied ==
  /\ edits = 1
  /\ 1 \in DOMAIN drafts
  /\ drafts[1].baseGrade = Some(7)
  /\ drafts[1].grade = NULL
  /\ drafts[1].gradeDirty
  /\ stats = [total |-> 3, withSubmission |-> 2, graded |-> 0, dirty |-> 1]

\* what a body asks for a key: the value its text denotes, as the route
\* reads it
Asked(key, text) ==
  CASE key = "baseUrl" -> TrimUrl(StringOf(text))
    [] key = "accessToken" ->
         IF StringOf(text) = "" THEN NULL ELSE Some(StringOf(text))
    [] OTHER -> IdOf(text)

\* a key the body leaves out keeps its stored value, a key given a value
\* holds that value
KeepsAndOverwrites(body, next) ==
  \A key \in {"baseUrl", "courseId", "assignmentId", "accessToken"} :
    IF key \notin DOMAIN body THEN next[key] = cachedConfig[key]
    ELSE body[key] # "null" => next[key] = Asked(key, body[key])

\* C27 as stated: for each of baseUrl, courseId, assignmentId and
\* accessToken a key left out of the update keeps its stored value, a key
\* given as null is cleared and a key given a value is overwritten with it
MergeOnWriteEveryKey ==
  \A body \in Bodies :
    LET next == updateConfig(cachedConfig, Sanitized(body))
    IN /\ KeepsAndOverwrites(body, next)
       /\ \A key \in {"baseUrl", "courseId", "assignmentId", "accessToken"} :
            (key \in DOMAIN body /\ body[key] = "null") =>
              next[key] = defaultConfig[key]

\* C27: a key left out of the update keeps its stored value and a key given
\* a value is overwritten with it (an empty token clears the token); a null
\* clears courseId, assignmentId and accessToken, and leaves the stored
\* baseUrl as it is
MergeOnWrite ==
  \A body \in Bodies :
    LET next == updateConfig(cachedConfig, Sanitized(body))
    IN /\ KeepsAndOverwrites(body, next)
       /\ \A key \in {"courseId", "assignmentId", "accessToken"} :
            (key \in DOMAIN body /\ body[key] = "null") =>
              next[key] = defaultConfig[key]
       /\ ("baseUrl" \in DOMAIN body /\ body.baseUrl = "null") =>
            next.baseUrl = cachedConfig.baseUrl

\* the body { baseUrl: null, courseId: null, accessToken: 't2' } was posted
\* to a complete configuration: the course is cleared, the token replaced,
\* the assignment and the baseUrl kept
ClearedCourseKeptUrl ==
  /\ cachedConfig =
       updateConfig(completeConfig,
                    Sanitized([baseUrl |-> "null", courseId |-> "null",
                               accessToken |-> "'t2'"]))
  /\ cachedConfig.courseId = NULL
  /\ cachedConfig.accessToken = Some("t2")
  /\ cachedConfig.assignmentId = Some(8)
  /\ cachedConfig.baseUrl = "u"

\* C28: the public view does not depend on which non-empty token is stored:
\* with another token in its place getPublicConfig returns the same, and so
\* does updateConfig for every update; tokenPresent is true exactly when a
\* non-empty token is stored
TokenNeverPublic ==
  /\ getPublicConfig(cachedConfig).tokenPresent =
       (cachedConfig.accessToken # NULL /\ cachedConfig.accessToken # Some(""))
  /\ cachedConfig.accessToken # NULL =>
       \A token \in {"t1", "t2"} :
         LET other == [cachedConfig EXCEPT !.accessToken = Some(token)]
         IN /\ getPublicConfig(other) = getPublicConfig(cachedConfig)
            /\ \A body \in Bodies :
                 getPublicConfig(updateConfig(other, Sanitized(body))) =
                   getPublicConfig(updateConfig(cachedConfig, Sanitized(body)))

\* the token t2 is stored with a complete configuration and the public view
\* says no more than that a token is present
TokenStored ==
  /\ cachedConfig.accessToken = Some("t2")
  /\ cachedConfig.courseId = Some(7)
  /\ getPublicConfig(cachedConfig) =
       [baseUrl |-> cachedConfig.baseUrl, courseId |-> Some(7),
        assignmentId |-> cachedConfig.assignmentId,
        keybindings |-> cachedConfig.keybindings,
        logLevel |-> cachedConfig.logLevel, tokenPresent |-> TRUE]

\* a route that needs the configuration was called
RouteStep ==
  /\ calls' # calls
  /\ LastCall.op \in {"postSync", "getSubmissions", "getAssignments"}
  /\ LastCall.value # "invalid"

\* C29 as stated: the route is turned down exactly when baseUrl, courseId,
\* assignmentId or accessToken is unset (assignmentId aside for the
\* assignments route), and then nothing is sent to the remote API
RaisesWhenUnset ==
  [][RouteStep =>
       /\ (LastCall.value = "rejected") =
            (\/ cachedConfig.baseUrl = ""
             \/ cachedConfig.courseId = NULL
             \/ LastCall.op # "getAssignments" /\ cachedConfig.assignmentId = NULL
             \/ cachedConfig.accessToken = NULL)
       /\ LastCall.value = "rejected" => UNCHANGED remoteVars]_vars

\* C29: the route is turned down exactly when baseUrl is empty, courseId or
\* assignmentId (assignmentId aside for the assignments route) is null, 0 or
\* NaN, or no token is stored, and then nothing is sent to the remote API:
\* no request starts and no write is made
RaisesWhenUnusable ==
  [][RouteStep =>
       /\ (LastCall.value = "rejected") =
            (\/ cachedConfig.baseUrl = ""
             \/ cachedConfig.courseId \in {NULL, Some(0), NaN}
             \/ /\ LastCall.op # "getAssignments"
                /\ cachedConfig.assignmentId \in {NULL, Some(0), NaN}
             \/ cachedConfig.accessToken = NULL)
       /\ LastCall.value = "rejected" => UNCHANGED remoteVars]_vars

\* with no assignment selected the assignments were requested and the sync
\* was turned down, without a write
SyncTurnedDown ==
  /\ cachedConfig.assignmentId = NULL
  /\ cachedConfig.courseId = Some(7)
  /\ Len(calls) = 2
  /\ calls[1].op = "getAssignments"
  /\ calls[1].value = "requested"
  /\ calls[2].op = "postSync"
  /\ calls[2].value = "rejected"
  /\ syncRequest = NULL
  /\ writes = <<>>

\* C30: the initial status of a draft follows the remote flags with the
\* precedence excused > missing > late > none, for each of the eight
\* combinations of (excused, missing, late)
InitialStatusPrecedence ==
  [][CreateDrafts =>
       \A i \in 1..Len(submissions) :
         LET sub == submissions[i]
             status == drafts'[sub.userId].status
         IN /\ sub.excused => status = "excused"
            /\ (~sub.excused /\ sub.missing) => status = "missing"
            /\ (~sub.excused /\ ~sub.missing /\ sub.late) => status = "late"
            /\ (~sub.excused /\ ~sub.missing /\ ~sub.late) => status = "none"]_vars

\* drafts were created for a submission that is both missing and late but
\* not excused, and its status is 'missing'
MissingBeforeLate ==
  /\ calls = <<>>
  /\ 1 \in DOMAIN drafts
  /\ ~submissions[1].excused /\ submissions[1].missing /\ submissions[1].late
  /\ drafts[1].status = "missing"

(***************************************************************************)
(* Properties of fetchAllPages.                                            *)
(***************************************************************************)
\* the URL of the rel="next" link of the page served at a URL, if any
NextOf(url) ==
  LET link == remotePages[url].link
      at == {i \in 1..Len(link) : link[i].rel = "next"}
  IN IF at = {} THEN NULL
     ELSE Some(link[CHOOSE i \in at : \A j \in at : i <= j].url)

\* the items of the pages requested up to the n-th request, in order
RECURSIVE ItemsUpTo(_)
ItemsUpTo(n) ==
  IF n = 0 THEN <<>>
  ELSE ItemsUpTo(n - 1) \o remotePages[requested[n].url].data

\* the chain of next links from a URL ends within n pages
RECURSIVE EndsWithin(_, _)
EndsWithin(url, n) ==
  /\ n > 0
  /\ NextOf(url) = NULL \/ EndsWithin(NextOf(url)[1], n - 1)

FiniteChain == EndsWithin(pager.url, Cardinality(URLs))

PagedInOrder ==
  /\ requested # <<>> => requested[1].url = pager.url
  /\ \A i \in 2..Len(requested) :
       NextOf(requested[i - 1].url) = Some(requested[i].url)
  /\ pager.pc = "loop" /\ requested # <<>> =>
       /\ NextOf(requested[Len(requested)].url) # NULL
       /\ pager.nextUrl = NextOf(requested[Len(requested)].url)
  /\ pager.pc = "returned" =>
       /\ requested # <<>>
       /\ NextOf(requested[Len(requested)].url) = NULL
       /\ pager.results = ItemsUpTo(Len(requested))

\* C31: fetchAllPages requests the initial URL and then the URL of the next
\* link of the last response until a response has none, returns the items
\* of all pages in request order, and terminates when the chain is finite
PagesFollowedToTheEnd ==
  /\ []PagedInOrder
  /\ (pager.pc = "loop" /\ FiniteChain) ~> (pager.pc \in {"returned", "threw"})

\* three pages were requested in the order a, c, b and their items returned
ThreePagesReturned ==
  /\ pager.pc = "returned"
  /\ Len(requested) = 3
  /\ requested[2].url = "c" /\ requested[3].url = "b"
  /\ pager.results = <<1, 2, 3>>

(***************************************************************************)
(* Properties of demo mode.                                                *)
(***************************************************************************)
\* C32: while demo mode is enabled no sync request is issued to the backend
\* and the submissions are those of the mock generator
DemoModeIsolated ==
  [][/\ (demoMode /\ syncRequest = NULL) => syncRequest' = NULL
     /\ demoMode' => submissions' = MockSubmissions]_vars

(***************************************************************************)
(* Properties of edits made while a sync is in flight.                     *)
(***************************************************************************)
\* C33: when reconciliation marks a student's grade or comment as clean,
\* the base value it records is the value that was sent in the successful
\* write, also when the draft was edited while the sync was in flight
BaseIsWhatWasSent ==
  [][(syncing /\ ~syncing' /\ drafts' # drafts) =>
       \A i \in 1..Len(syncRequest[1]) :
         LET update == syncRequest[1][i]
             u == update.userId
         IN (u \in successIds(results) /\ u \in DOMAIN drafts') =>
              /\ (update.gradeChanged /\ ~drafts'[u].gradeDirty) =>
                   drafts'[u].baseGrade = update.newGrade
              /\ (update.commentChanged /\ ~drafts'[u].commentDirty) =>
                   drafts'[u].baseComment = update.newComment]_vars

(***************************************************************************)
(* Properties of the autosave snapshot over a session.                     *)
(***************************************************************************)
\* C34: once every staged edit was reconciled by a sync or rolled back, a
\* reload of the submissions restores no draft from the autosave snapshot:
\* no draft is dirty after it
NoRestoreAfterSettled ==
  [][(/\ fetches' = fetches - 1
      /\ drafts' # drafts
      /\ drafts # <<>>
      /\ \A u \in DOMAIN drafts : ~AnyDirty(drafts[u])) =>
       \A u \in DOMAIN drafts' : ~AnyDirty(drafts'[u])]_vars

(***************************************************************************)
(* Properties of switching the assignment.                                 *)
(***************************************************************************)
\* C35: when a fetch is triggered while an earlier one is in flight, then
\* after both settled the displayed submissions are those of the fetch
\* triggered last, the one of the currently configured assignment
LatestFetchWins ==
  (/\ fetches = 0 /\ ~settingsSaving
   /\ error = "null"
   /\ submissions # <<>>) =>
    submissions = RemoteSubmissionsOf(cachedConfig.assignmentId)

\* the assignment a loaded list of submissions belongs to
AssignmentOf(subs) ==
  IF subs = RemoteSubmissionsOf(OtherAssignment)
  THEN OtherAssignment
  ELSE completeConfig.assignmentId

\* C36: dirty drafts autosaved while grading one assignment are not
\* restored into the drafts of another one: a load that replaces the
\* submissions of one assignment by those of another leaves no draft dirty
NoRestoreAcrossAssignments ==
  [][(/\ drafts' # drafts
      /\ submissions # <<>>
      /\ submissions' # <<>>
      /\ AssignmentOf(submissions') # AssignmentOf(submissions)) =>
       \A u \in DOMAIN drafts' : ~AnyDirty(drafts'[u])]_vars

(***************************************************************************)
(* Rolled-back edits and the flush.                                        *)
(***************************************************************************)
\* what a flush of the draft map d sends to Canvas for student u
FlushedFor(d, u) ==
  LET sent == toSend(submissions, d)
  IN {Payload(sent[i]) : i \in {j \in 1..Len(sent) : sent[j].userId = u}}

\* C37: an edit rolled back by clearOne or clearAll is never written by a
\* later flush: right after the clear a flush sends nothing for the student,
\* and after a later edit of one rubric criterion the flush sends no other
\* rubric comment than those loaded from Canvas
RolledBackNeverWritten ==
  [][(calls' # calls /\ LastCall.op \in {"clearOne", "clearAll"}) =>
       \A u \in DOMAIN drafts' :
         (LastCall.op = "clearAll" \/ u = LastCall.userId) =>
           LET loaded == createInitialDrafts(submissions)[u].rubricComments IN
           /\ FlushedFor(drafts', u) = {}
           /\ \A k \in Criteria, v \in RubricTexts :
                \A payload \in
                    FlushedFor(handleRubricCommentChange(drafts', u, k, v), u) :
                  \A c \in Criteria \ {k} :
                    RubricKey(c) \in DOMAIN payload =>
                      /\ c \in DOMAIN loaded
                      /\ payload[RubricKey(c)] = loaded[c]]_vars

(***************************************************************************)
(* The frame of the handlers of one student.                               *)
(***************************************************************************)
SingleStudentOps ==
  {"setGrade", "setComment", "setStatus", "setRubricComment", "clearOne"}

\* C38: setGrade, setComment, setStatus, setRubricComment and clearOne on a
\* student leave the DraftState of every other student unchanged and never
\* change baseGrade, baseComment or baseStatus of the student
HandlersKeepOthersAndBase ==
  [][(calls' # calls /\ LastCall.op \in SingleStudentOps) =>
       /\ DOMAIN drafts' = DOMAIN drafts
       /\ \A u \in DOMAIN drafts :
            IF u # LastCall.userId
            THEN drafts'[u] = drafts[u]
            ELSE /\ drafts'[u].baseGrade = drafts[u].baseGrade
                 /\ drafts'[u].baseComment = drafts[u].baseComment
                 /\ drafts'[u].baseStatus = drafts[u].baseStatus]_vars

\* student 2, loaded late beside student 1, was excused and then cleared
ExcusedThenCleared ==
  /\ Len(calls) = 2
  /\ calls[1].op = "setStatus" /\ calls[1].userId = 2
  /\ calls[1].value = "excused"
  /\ calls[2].op = "clearOne" /\ calls[2].userId = 2
  /\ DOMAIN drafts = {1, 2}
  /\ drafts[2].baseStatus = "late"
  /\ drafts[2].status = "late"
  /\ drafts = createInitialDrafts(submissions)

(***************************************************************************)
(* Loaded submissions and the draft map.  loadSubmissions sets both in one *)
(* turn, which React renders as one state.                                 *)
(***************************************************************************)
\* C39: in every reachable state every loaded submission has a DraftState
EveryLoadedHasDraft ==
  \A i \in 1..Len(submissions) : HasDraft(drafts, submissions[i].userId)

\* demo mode was switched off: the mock student is still listed, with its
\* DraftState, while the roster is being fetched
MockListedWhileFetching ==
  /\ ~demoMode
  /\ fetches > 0
  /\ submissions = MockSubmissions
  /\ DOMAIN drafts = {MockSubmissions[1].userId}

(***************************************************************************)
(* The count of the Ungraded tab.                                          *)
(***************************************************************************)
\* the count shown on the Ungraded tab
UngradedCount == stats.withSubmission - stats.graded

\* the students listed under the Ungraded filter, nothing being searched
UngradedListed == sortedSubmissions(submissions, drafts, "ungraded", <<>>)

\* C40: the count of the Ungraded tab (withSubmission - graded) is never
\* negative and equals the number of students listed under the Ungraded
\* filter (hasSubmission and a null draft grade), also when a student
\* without a submission is graded
UngradedCountIsListed ==
  /\ UngradedCount >= 0
  /\ UngradedCount = Len(UngradedListed)

====
